---- MODULE Spec2Model ----
(***************************************************************************)
(* A model of the RTP packetization layer of wrwr: the sequence generator, *)
(* the per-codec payload generators (G.711, G.722, Opus, VP8, VP9, H.264)  *)
(* and the Packetizer that wraps each generated payload in an RTP packet.  *)
(* The RTP Packet itself is modelled with its parser (from_raw) and its    *)
(* serializer (to_raw, to_raw_mut).                                        *)
(* The RTCP crate is modelled with the parsers and the serializers of its  *)
(* Header, ReceptionReport, SenderReport and Goodbye.                      *)
(*                                                                         *)
(* Octets are the integers 0..255 and octet buffers are sequences of them  *)
(* (index 1 of a sequence is index 0 of the Rust slice).  A u16 is an      *)
(* integer in 0..65535.  A u32 that is computed with (the timestamp, the   *)
(* samples of a frame) is a pair <<hi, lo>> of 16-bit halves, so that the  *)
(* 32-bit carry is explicit.  An Option is a record [some, v].             *)
(*                                                                         *)
(* Rust's integer arithmetic depends on the build profile: with overflow   *)
(* checks (the default of the dev and test profiles) `+=` panics when the  *)
(* result does not fit, without them (the default of the release profile)  *)
(* it wraps.  The variable overflow_checks is the profile of the build.    *)
(***************************************************************************)
EXTENDS Integers, Sequences, FiniteSets, TLC

VARIABLES
    overflow_checks,   \* TRUE: the build panics on arithmetic overflow
    seqr,              \* a stand-alone Sequencer and the observation of its calls
    frag,              \* the inputs of stand-alone payload generator calls
    fragOut,           \* the outputs of those calls, per generator
    vp9gen,            \* a stand-alone VP9PayloadGenerator
    packetizer,        \* a Packetizer
    call,              \* the last packetize call: arguments, state before, result
    emitted,           \* observation of the sequence numbers emitted so far
    calls,             \* number of packetize calls made
    wire,              \* a Packet on its way through from_raw, field updates and to_raw
    rtcp               \* an RTCP header, block or packet on its way through from_raw and to_raw

vars == <<overflow_checks, seqr, frag, fragOut, vp9gen, packetizer, call, emitted, calls, wire, rtcp>>

----------------------------------------------------------------------------
(* Bounds of the model *)

\* longest frame given to the stand-alone generators
MaxFrameLen == 4
\* longest enumerated frame given to a Packetizer
MaxDataLen == 3
\* largest small mtu given to the stand-alone generators
MaxFragMtu == 5
\* number of packetize calls on one Packetizer
MaxCalls == 2
\* number of next_sequence_number calls on the stand-alone Sequencer
MaxNext == 8
\* number of generate calls on the stand-alone VP9 generator
MaxVp9Calls == 2
\* number of extension numbers registered on one Packetizer
MaxExtensions == 1
\* largest number of CSRCs of a buffer or a packet
MaxCsrc == 2
\* largest header extension of a buffer, in 32-bit words
MaxExtensionWords == 1
\* number of field updates and to_raw / to_raw_mut calls on one Packet
MaxPacketOps == 3
\* largest number of reception reports of a Sender Report
MaxReports == 2
\* largest number of sources of a Goodbye read from a buffer
MaxSources == 2

----------------------------------------------------------------------------
(* Integer widths and Option *)

U8 == 256
U16 == 65536

None == [some |-> FALSE, v |-> <<>>]
Some(x) == [some |-> TRUE, v |-> x]

Min(a, b) == IF a < b THEN a ELSE b

\* bitwise or / and of two naturals
RECURSIVE BitOr(_, _)
BitOr(a, b) ==
    IF a = 0 THEN b
    ELSE IF b = 0 THEN a
    ELSE (IF a % 2 = 1 \/ b % 2 = 1 THEN 1 ELSE 0) + 2 * BitOr(a \div 2, b \div 2)

RECURSIVE BitAnd(_, _)
BitAnd(a, b) ==
    IF a = 0 \/ b = 0 THEN 0
    ELSE (IF a % 2 = 1 /\ b % 2 = 1 THEN 1 ELSE 0) + 2 * BitAnd(a \div 2, b \div 2)

\* u32 as <<hi, lo>>: the sum before truncation is <<carry, hi, lo>>
Add32Carry(a, b) == (a[1] + b[1] + ((a[2] + b[2]) \div U16)) \div U16
Add32Wrapping(a, b) ==
    <<(a[1] + b[1] + ((a[2] + b[2]) \div U16)) % U16, (a[2] + b[2]) % U16>>

RECURSIVE Flatten(_)
Flatten(ss) == IF Len(ss) = 0 THEN <<>> ELSE Head(ss) \o Flatten(Tail(ss))

\* a Vec of n zero octets
Zeros(n) == [i \in 1..n |-> 0]

----------------------------------------------------------------------------
(* Sequencer (rtp/src/sequencer.rs) *)

SequencerNew(s) == [sequence_number |-> s, roll_over_count |-> 0]

\* next_sequence_number that returns the incremented value without storing it
next_sequence_number_unsaved(self) ==
    IF overflow_checks /\ self.sequence_number + 1 >= U16
    THEN [self |-> self, panicked |-> TRUE, ret |-> 0]
    ELSE [self |-> self, panicked |-> FALSE, ret |-> (self.sequence_number + 1) % U16]

\* next_sequence_number: [self: the Sequencer afterwards, panicked, ret: the u16 returned]
next_sequence_number(self) ==
    IF overflow_checks /\ self.sequence_number + 1 >= U16
    THEN [self |-> self, panicked |-> TRUE, ret |-> 0]
    ELSE LET n == (self.sequence_number + 1) % U16
             s == [sequence_number |-> n,
                   roll_over_count |-> IF n = 0 THEN self.roll_over_count + 1
                                       ELSE self.roll_over_count]
         IN [self |-> s, panicked |-> FALSE, ret |-> s.sequence_number]

roll_over_count(self) == self.roll_over_count

----------------------------------------------------------------------------
(* G.711 and G.722 payload generators (src/codecs/g711.rs, rtp/src/codecs/g722.rs) *)

\* the while loop and the tail push of G711PayloadGenerator::generate
RECURSIVE G711Chunks(_, _, _)
G711Chunks(mtu, payload, offset) ==
    IF Len(payload) - offset > mtu
    THEN <<SubSeq(payload, offset + 1, offset + mtu)>> \o G711Chunks(mtu, payload, offset + mtu)
    ELSE <<SubSeq(payload, offset + 1, Len(payload))>>

\* generate whose loop runs while `payload.len() - offset >= mtu`
RECURSIVE G711ChunksGe(_, _, _)
G711ChunksGe(mtu, payload, offset) ==
    IF Len(payload) - offset >= mtu
    THEN <<SubSeq(payload, offset + 1, offset + mtu)>> \o G711ChunksGe(mtu, payload, offset + mtu)
    ELSE <<SubSeq(payload, offset + 1, Len(payload))>>

G711Generate_ge(mtu, payload) ==
    IF mtu = 0 \/ Len(payload) = 0 THEN None
    ELSE Some(G711ChunksGe(mtu, payload, 0))

G711Generate(mtu, payload) ==
    IF mtu = 0 \/ Len(payload) = 0 THEN None
    ELSE Some(G711Chunks(mtu, payload, 0))

\* the while loop and the tail push of G722PayloadGenerator::generate
RECURSIVE G722Chunks(_, _, _)
G722Chunks(mtu, payload, offset) ==
    IF Len(payload) - offset > mtu
    THEN <<SubSeq(payload, offset + 1, offset + mtu)>> \o G722Chunks(mtu, payload, offset + mtu)
    ELSE <<SubSeq(payload, offset + 1, Len(payload))>>

\* generate that leaves out the push of the tail chunk
RECURSIVE G722ChunksNoTail(_, _, _)
G722ChunksNoTail(mtu, payload, offset) ==
    IF Len(payload) - offset > mtu
    THEN <<SubSeq(payload, offset + 1, offset + mtu)>>
         \o G722ChunksNoTail(mtu, payload, offset + mtu)
    ELSE <<>>

G722Generate_noTail(mtu, payload) ==
    IF mtu = 0 \/ Len(payload) = 0 THEN None
    ELSE Some(G722ChunksNoTail(mtu, payload, 0))

G722Generate(mtu, payload) ==
    IF mtu = 0 \/ Len(payload) = 0 THEN None
    ELSE Some(G722Chunks(mtu, payload, 0))

----------------------------------------------------------------------------
(* Opus payload generator (rtp/src/codecs/opus.rs) *)

OpusGenerate(mtu, payload) ==
    IF Len(payload) = 0 THEN None
    ELSE Some(<<payload>>)

----------------------------------------------------------------------------
(* VP8 payload generator (src/codecs/vp8.rs) *)

VP8_HEADER_SIZE == 1

\* the while loop of VP8PayloadGenerator::generate
RECURSIVE VP8Fragments(_, _, _, _)
VP8Fragments(max_fragment_size, payload, data_remaining, data_index) ==
    IF data_remaining > 0
    THEN LET payload_size == Min(max_fragment_size, data_remaining)
             zeroed == Zeros(VP8_HEADER_SIZE + payload_size)
             generated == SubSeq(zeroed, 1, VP8_HEADER_SIZE)
                          \o SubSeq(payload, data_index + 1, data_index + payload_size)
         IN <<generated>> \o VP8Fragments(max_fragment_size, payload,
                                          data_remaining - payload_size,
                                          data_index + payload_size)
    ELSE <<>>

\* generate that leaves the descriptor of the first fragment at 0x00
VP8Generate_noStart(mtu, payload) ==
    IF mtu <= VP8_HEADER_SIZE THEN None
    ELSE LET output == VP8Fragments(mtu - VP8_HEADER_SIZE, payload, Len(payload), 0)
         IN IF Len(output) > 0 THEN Some(output) ELSE None

VP8Generate(mtu, payload) ==
    IF mtu <= VP8_HEADER_SIZE THEN None
    ELSE LET output == VP8Fragments(mtu - VP8_HEADER_SIZE, payload, Len(payload), 0)
         IN IF Len(output) > 0
            THEN Some([output EXCEPT ![1][1] = 16])
            ELSE None

----------------------------------------------------------------------------
(* VP9 payload generator (src/codecs/vp9.rs) *)

VP9_HEADER_SIZE == 3

VP9PayloadGenerator(pid, init) == [picture_id |-> pid, initialized |-> init]

\* initialize: rnd is the u16 drawn from the random source
VP9Initialize(self, rnd) == [picture_id |-> rnd, initialized |-> TRUE]

\* the while loop of VP9PayloadGenerator::generate
RECURSIVE VP9Fragments(_, _, _, _, _)
VP9Fragments(self, max_size, payload, data_remaining, data_index) ==
    IF data_remaining > 0
    THEN LET current_size == Min(max_size, data_remaining)
             b0 == BitOr(BitOr(144, IF data_index = 0 THEN 8 ELSE 0),
                         IF data_remaining = current_size THEN 4 ELSE 0)
             b1 == BitOr((self.picture_id \div 256) % U8, 128)
             b2 == self.picture_id % U8
             generated == <<b0, b1, b2>>
                          \o SubSeq(payload, data_index + 1, data_index + current_size)
         IN <<generated>> \o VP9Fragments(self, max_size, payload,
                                          data_remaining - current_size,
                                          data_index + current_size)
    ELSE <<>>

\* generate whose loop tests the end bit after data_remaining was decremented
RECURSIVE VP9FragmentsLateEnd(_, _, _, _, _)
VP9FragmentsLateEnd(self, max_size, payload, data_remaining, data_index) ==
    IF data_remaining > 0
    THEN LET current_size == Min(max_size, data_remaining)
             b0 == BitOr(BitOr(144, IF data_index = 0 THEN 8 ELSE 0),
                         IF data_remaining - current_size = current_size THEN 4 ELSE 0)
             b1 == BitOr((self.picture_id \div 256) % U8, 128)
             b2 == self.picture_id % U8
             generated == <<b0, b1, b2>>
                          \o SubSeq(payload, data_index + 1, data_index + current_size)
         IN <<generated>> \o VP9FragmentsLateEnd(self, max_size, payload,
                                                 data_remaining - current_size,
                                                 data_index + current_size)
    ELSE <<>>

VP9Generate_lateEnd(self, mtu, payload, rnd) ==
    IF Len(payload) = 0 \/ mtu <= VP9_HEADER_SIZE
    THEN [self |-> self, status |-> "ok", out |-> None]
    ELSE LET s1 == IF ~self.initialized THEN VP9Initialize(self, rnd) ELSE self
             payloads == VP9FragmentsLateEnd(s1, mtu - VP9_HEADER_SIZE, payload,
                                             Len(payload), 0)
         IN IF overflow_checks /\ s1.picture_id + 1 >= U16
            THEN [self |-> s1, status |-> "panic", out |-> None]
            ELSE LET inc == (s1.picture_id + 1) % U16
                     s2 == [s1 EXCEPT !.picture_id = IF inc >= 32768 THEN 0 ELSE inc]
                 IN [self |-> s2, status |-> "ok",
                     out |-> IF Len(payloads) > 0 THEN Some(payloads) ELSE None]

\* generate that increments the picture id before it looks at its arguments
VP9Generate_countsFirst(self, mtu, payload, rnd) ==
    LET inc == (self.picture_id + 1) % U16
        s0 == [self EXCEPT !.picture_id = IF inc >= 32768 THEN 0 ELSE inc]
    IN IF Len(payload) = 0 \/ mtu <= VP9_HEADER_SIZE
       THEN [self |-> s0, status |-> "ok", out |-> None]
       ELSE [self |-> s0, status |-> "ok",
             out |-> Some(VP9Fragments(self, mtu - VP9_HEADER_SIZE, payload,
                                       Len(payload), 0))]

\* generate: [self: the generator afterwards, status, out: the Option returned]
VP9Generate(self, mtu, payload, rnd) ==
    IF Len(payload) = 0 \/ mtu <= VP9_HEADER_SIZE
    THEN [self |-> self, status |-> "ok", out |-> None]
    ELSE LET s1 == IF ~self.initialized THEN VP9Initialize(self, rnd) ELSE self
             payloads == VP9Fragments(s1, mtu - VP9_HEADER_SIZE, payload, Len(payload), 0)
         IN IF overflow_checks /\ s1.picture_id + 1 >= U16
            THEN [self |-> s1, status |-> "panic", out |-> None]
            ELSE LET inc == (s1.picture_id + 1) % U16
                     s2 == [s1 EXCEPT !.picture_id = IF inc >= 32768 THEN 0 ELSE inc]
                 IN [self |-> s2, status |-> "ok",
                     out |-> IF Len(payloads) > 0 THEN Some(payloads) ELSE None]

----------------------------------------------------------------------------
(* H.264 payload generator (src/codecs/h264.rs) *)

FUA_HEADER_SIZE == 2
NAL_UNIT_TYPE_MASK == 31
NAL_UNIT_REF_IDC_MASK == 96

\* the for loop of get_nal_unit_boundaries over units[start..], from `index` on
RECURSIVE NalScan(_, _, _, _)
NalScan(units, start, index, zero_count) ==
    IF start + index >= Len(units) THEN None
    ELSE LET byte == units[start + index + 1]
         IN IF byte = 0 THEN NalScan(units, start, index + 1, zero_count + 1)
            ELSE IF byte = 1
                 THEN IF zero_count >= 2
                      THEN Some(<<start + index - zero_count, zero_count + 1>>)
                      ELSE NalScan(units, start, index + 1, zero_count)
                 ELSE NalScan(units, start, index + 1, 0)

get_nal_unit_boundaries(units, start) == NalScan(units, start, 0, 0)

\* the while loop of generate_payloads_from_nal_unit (max_fragment_size > 0)
RECURSIVE FuaFragments(_, _, _, _, _, _, _)
FuaFragments(unit, unit_type, ref_idc, max_fragment_size, unit_data_length, unit_data_remaining, unit_data_index) ==
    IF unit_data_remaining > 0
    THEN LET payload_size == Min(max_fragment_size, unit_data_remaining)
             b0 == BitOr(28, ref_idc)
             b1 == IF unit_data_remaining = unit_data_length THEN BitOr(unit_type, 128)
                   ELSE IF unit_data_remaining - payload_size = 0 THEN BitOr(unit_type, 64)
                   ELSE unit_type
             payload == <<b0, b1>>
                        \o SubSeq(unit, unit_data_index + 1, unit_data_index + payload_size)
         IN <<payload>> \o FuaFragments(unit, unit_type, ref_idc, max_fragment_size,
                                        unit_data_length,
                                        unit_data_remaining - payload_size,
                                        unit_data_index + payload_size)
    ELSE <<>>

\* generate_payloads_from_nal_unit: [status, out].  unit[0] of an empty unit is an
\* index out of bounds (panic); with mtu = FUA_HEADER_SIZE the loop never consumes
\* an octet and pushes payloads for ever (hang).
generate_payloads_from_nal_unit(mtu, unit) ==
    IF Len(unit) = 0 THEN [status |-> "panic", out |-> None]
    ELSE LET unit_type == BitAnd(unit[1], NAL_UNIT_TYPE_MASK)
             ref_idc == BitAnd(unit[1], NAL_UNIT_REF_IDC_MASK)
         IN IF unit_type = 9 \/ unit_type = 12 \/ mtu < FUA_HEADER_SIZE
            THEN [status |-> "ok", out |-> None]
            ELSE IF Len(unit) < mtu
            THEN [status |-> "ok", out |-> Some(<<unit>>)]
            ELSE IF mtu - FUA_HEADER_SIZE = 0 /\ Len(unit) - 1 > 0
            THEN [status |-> "hang", out |-> None]
            ELSE [status |-> "ok",
                  out |-> Some(FuaFragments(unit, unit_type, ref_idc, mtu - FUA_HEADER_SIZE,
                                            Len(unit) - 1, Len(unit) - 1, 1))]

\* the `while let` loop of H264PayloadGenerator::generate: [status, output]
RECURSIVE H264Units(_, _, _, _)
H264Units(mtu, payload, boundaries, output) ==
    IF ~boundaries.some THEN [status |-> "ok", output |-> output]
    ELSE LET previous_start == boundaries.v[1] + boundaries.v[2]
             next == get_nal_unit_boundaries(payload, previous_start)
             unit == IF next.some THEN SubSeq(payload, previous_start + 1, next.v[1])
                     ELSE SubSeq(payload, previous_start + 1, Len(payload))
             payloads == generate_payloads_from_nal_unit(mtu, unit)
         IN IF payloads.status # "ok" THEN [status |-> payloads.status, output |-> <<>>]
            ELSE H264Units(mtu, payload, next,
                           IF payloads.out.some THEN output \o payloads.out.v ELSE output)

\* generate: [status, out: the Option returned]
H264Generate(mtu, payload) ==
    IF Len(payload) = 0 THEN [status |-> "ok", out |-> None]
    ELSE LET boundaries == get_nal_unit_boundaries(payload, 0)
         IN IF ~boundaries.some
            THEN generate_payloads_from_nal_unit(mtu, payload)
            ELSE LET r == H264Units(mtu, payload, boundaries, <<>>)
                 IN IF r.status # "ok" THEN [status |-> r.status, out |-> None]
                    ELSE [status |-> "ok",
                          out |-> IF Len(r.output) > 0 THEN Some(r.output) ELSE None]

----------------------------------------------------------------------------
(* RTP packet constants (src/packet.rs) and the Packetizer (rtp/src/packetizer.rs) *)

PACKET_VERSION == 2
HEADER_SIZE == 12

\* ExtensionNumber
AbsSendTime(value) == [tag |-> "AbsSendTime", value |-> value]
Unknown == [tag |-> "Unknown", value |-> 0]

\* the generator G of a Packetizer<G>; picture_id and initialized are VP9's fields
Generator(kind, pid) == [kind |-> kind, picture_id |-> pid, initialized |-> TRUE]

\* PayloadGenerator::generate of the generator held by a Packetizer:
\* [self: the generator afterwards, status, out]
Generate(gen, mtu, payload) ==
    CASE gen.kind = "G711" -> [self |-> gen, status |-> "ok", out |-> G711Generate(mtu, payload)]
      [] gen.kind = "G722" -> [self |-> gen, status |-> "ok", out |-> G722Generate(mtu, payload)]
      [] gen.kind = "Opus" -> [self |-> gen, status |-> "ok", out |-> OpusGenerate(mtu, payload)]
      [] gen.kind = "VP8" -> [self |-> gen, status |-> "ok", out |-> VP8Generate(mtu, payload)]
      [] gen.kind = "VP9" ->
            LET r == VP9Generate([picture_id |-> gen.picture_id,
                                  initialized |-> gen.initialized], mtu, payload, 0)
            IN [self |-> [gen EXCEPT !.picture_id = r.self.picture_id,
                                     !.initialized = r.self.initialized],
                status |-> r.status, out |-> r.out]
      [] gen.kind = "H264" ->
            LET r == H264Generate(mtu, payload)
            IN [self |-> gen, status |-> r.status, out |-> r.out]

\* Packetizer::new; ts, seq and pid are the values drawn from the random source
PacketizerNew(mtu, payload_type, ssrc, kind, ts, seq, pid) ==
    [mtu |-> mtu,
     payload_type |-> payload_type,
     synchronization_source |-> ssrc,
     timestamp |-> ts,
     extensions |-> <<>>,
     generator |-> Generator(kind, pid),
     sequencer |-> SequencerNew(seq)]

\* the fold over self.extensions: the value of the last AbsSendTime registered
RECURSIVE AbsSendTimeFold(_, _)
AbsSendTimeFold(current, extensions) ==
    IF Len(extensions) = 0 THEN current
    ELSE AbsSendTimeFold(IF Head(extensions).tag = "AbsSendTime"
                         THEN Some(Head(extensions).value)
                         ELSE current,
                         Tail(extensions))

\* `time & mask >> shift` of Rust is `time & (mask >> shift)`; time is the NTP time
\* as its 8 octets, most significant first, mask is below 2^24; the result `as u8`
MaskedOctet(time, mask, shift) ==
    BitAnd(time[6] * 65536 + time[7] * 256 + time[8], mask \div (2 ^ shift)) % U8

\* the extension payload built for a marker packet
AbsSendTimePayload(abs_send_time, time) ==
    <<BitOr((abs_send_time * 16) % U8, 2),
      MaskedOctet(time, 16711680, 16),
      MaskedOctet(time, 65280, 8),
      MaskedOctet(time, 255, 0)>>

\* `payload.len() - 1 == index` of the map closure: [panicked, marker]
Marker(payload, index) ==
    IF Len(payload) = 0
    THEN [panicked |-> overflow_checks, marker |-> FALSE]
    ELSE [panicked |-> FALSE, marker |-> Len(payload) - 1 = index]

\* the Packet built by the map closure for one payload; m is the closure's marker
\* and n the result of the call of next_sequence_number
MakePacket(self, payload, m, abs_send_time, time, n) ==
    [version |-> PACKET_VERSION,
     padding |-> FALSE,
     extension |-> m.marker /\ abs_send_time.some,
     marker |-> m.marker,
     payload_type |-> self.payload_type,
     sequence_number |-> n.ret,
     timestamp |-> self.timestamp,
     ssrc |-> self.synchronization_source,
     csrc |-> <<>>,
     extension_profile |-> IF m.marker /\ abs_send_time.some THEN Some(48862) ELSE None,
     extension_payload |->
         IF m.marker /\ abs_send_time.some
         THEN Some(AbsSendTimePayload(abs_send_time.v, time))
         ELSE None,
     payload_offset |-> HEADER_SIZE,
     payload |-> payload,
     raw |-> None]

\* collect: a packet followed by the packets of the rest of the iteration
Collect(pkt, rest) ==
    [panicked |-> rest.panicked,
     at |-> rest.at,
     packets |-> IF rest.panicked THEN <<>> ELSE <<pkt>> \o rest.packets,
     sequencer |-> rest.sequencer]

\* the map closure applied to payloads[index..] in order:
\* [panicked, at: the operation that panicked, packets,
\*  sequencer: the Sequencer afterwards]
RECURSIVE BuildPackets(_, _, _, _, _, _)
BuildFrom(self, payloads, index, abs_send_time, time, sequencer, m, n) ==
    IF m.panicked
    THEN [panicked |-> TRUE, at |-> "marker", packets |-> <<>>, sequencer |-> sequencer]
    ELSE IF n.panicked
    THEN [panicked |-> TRUE, at |-> "sequence_number", packets |-> <<>>,
          sequencer |-> n.self]
    ELSE Collect(MakePacket(self, payloads[index + 1], m, abs_send_time, time, n),
                 BuildPackets(self, payloads, index + 1, abs_send_time, time, n.self))

BuildPackets(self, payloads, index, abs_send_time, time, sequencer) ==
    IF index >= Len(payloads)
    THEN [panicked |-> FALSE, at |-> "", packets |-> <<>>, sequencer |-> sequencer]
    ELSE BuildFrom(self, payloads, index, abs_send_time, time, sequencer,
                   Marker(payloads[index + 1], index),
                   next_sequence_number(sequencer))

\* `self.timestamp += samples`: [panicked, timestamp]
AdvanceTimestamp(timestamp, samples) ==
    IF overflow_checks /\ Add32Carry(timestamp, samples) > 0
    THEN [panicked |-> TRUE, timestamp |-> timestamp]
    ELSE [panicked |-> FALSE, timestamp |-> Add32Wrapping(timestamp, samples)]

\* packetize from `self.timestamp += samples` on; b is the result of the map
PacketizeAdvance(self, b, t) ==
    IF b.panicked
    THEN [self |-> self, ret |-> "panic", at |-> b.at, packets |-> <<>>]
    ELSE IF t.panicked
    THEN [self |-> self, ret |-> "panic", at |-> "timestamp", packets |-> <<>>]
    ELSE [self |-> [self EXCEPT !.timestamp = t.timestamp],
          ret |-> "some", at |-> "", packets |-> b.packets]

\* packetize from the map over the payloads on; b is the result of the map
PacketizeBuilt(self, b, samples) ==
    PacketizeAdvance([self EXCEPT !.sequencer = b.sequencer], b,
                     AdvanceTimestamp(self.timestamp, samples))

\* packetize that refreshes the timestamp before it builds the packets
PacketizeGenerated_advanceFirst(self, g, samples, time) ==
    IF g.status # "ok"
    THEN [self |-> self, ret |-> g.status, at |-> "generate", packets |-> <<>>]
    ELSE IF ~g.out.some \/ Len(g.out.v) = 0
    THEN [self |-> self, ret |-> "none", at |-> "", packets |-> <<>>]
    ELSE PacketizeAdvance(
             [self EXCEPT !.sequencer =
                 BuildPackets(self, g.out.v, 0, None, time, self.sequencer).sequencer],
             BuildPackets([self EXCEPT !.timestamp = Add32Wrapping(self.timestamp, samples)],
                          g.out.v, 0, AbsSendTimeFold(None, self.extensions), time,
                          self.sequencer),
             AdvanceTimestamp(self.timestamp, samples))

\* packetize after the call of generate; g is the result of that call
PacketizeGenerated(self, g, samples, time) ==
    IF g.status # "ok"
    THEN [self |-> self, ret |-> g.status, at |-> "generate", packets |-> <<>>]
    ELSE IF ~g.out.some
    THEN [self |-> self, ret |-> "none", at |-> "", packets |-> <<>>]
    ELSE IF Len(g.out.v) = 0
    THEN [self |-> self, ret |-> "none", at |-> "", packets |-> <<>>]
    ELSE PacketizeBuilt(self,
                        BuildPackets(self, g.out.v, 0, AbsSendTimeFold(None, self.extensions),
                                     time, self.sequencer),
                        samples)

\* the call of generate on the Packetizer's generator, which keeps the new state
WithGenerator(self, g, samples, time) ==
    PacketizeGenerated([self EXCEPT !.generator = g.self], g, samples, time)

\* Packetizer::packetize: [self: the Packetizer afterwards,
\*   ret: "none" | "some" | "panic" | "hang", at: the operation that panicked or
\*   hung, packets]
packetize(self, data, samples, time) ==
    IF Len(data) = 0 \/ self.mtu <= HEADER_SIZE
    THEN [self |-> self, ret |-> "none", at |-> "", packets |-> <<>>]
    ELSE WithGenerator(self, Generate(self.generator, self.mtu - HEADER_SIZE, data),
                       samples, time)

\* Packetizer::add_extension_number
add_extension_number(self, extension) ==
    [self EXCEPT !.extensions = Append(self.extensions, extension)]

----------------------------------------------------------------------------
(* Packet::from_raw and Packet::to_raw (src/packet.rs).  A u32 field (timestamp, *)
(* ssrc, a CSRC) is a pair <<hi, lo>> of 16-bit halves.                          *)

HEADER_LENGHT == 4
VERSION_SHIFT == 6
VERSION_MASK == 3
PADDING_SHIFT == 5
PADDING_MASK == 1
EXTENSION_SHIFT == 4
EXTENSION_MASK == 1
CC_MASK == 15
MARKER_SHIFT == 7
MARKER_MASK == 1
PAYLOAD_TYPE_MASK == 127
SEQ_NUM_OFFSET == 2
TIMESTAMP_OFFSET == 4
SSRC_OFFSET == 8
CSRC_OFFSET == 12
CSRC_LENGTH == 4

\* Result<T, ()>, and the outcome of a call that panics
Ok(x) == [status |-> "ok", v |-> x]
Err == [status |-> "err", v |-> <<>>]
Panicked == [status |-> "panic", v |-> <<>>]

\* raw_packet[i] of a slice (i counts from 0)
At(raw_packet, i) == raw_packet[i + 1]

\* u16::from_be_bytes and u32::from_be_bytes of the octets at offset
U16FromBe(raw_packet, offset) == At(raw_packet, offset) * 256 + At(raw_packet, offset + 1)
U32FromBe(raw_packet, offset) ==
    <<U16FromBe(raw_packet, offset), U16FromBe(raw_packet, offset + 2)>>

\* u16::to_be_bytes and u32::to_be_bytes
U16ToBe(x) == <<(x \div 256) % 256, x % 256>>
U32ToBe(x) == U16ToBe(x[1]) \o U16ToBe(x[2])

\* the fields from_raw decodes from the first 12 octets
FixedFields(raw_packet) ==
    [version |-> BitAnd(At(raw_packet, 0) \div (2 ^ VERSION_SHIFT), VERSION_MASK),
     padding |-> BitAnd(At(raw_packet, 0) \div (2 ^ PADDING_SHIFT), PADDING_MASK) > 0,
     extension |-> BitAnd(At(raw_packet, 0) \div (2 ^ EXTENSION_SHIFT), EXTENSION_MASK) > 0,
     cc |-> BitAnd(At(raw_packet, 0), CC_MASK),
     marker |-> BitAnd(At(raw_packet, 1) \div (2 ^ MARKER_SHIFT), MARKER_MASK) > 0,
     payload_type |-> BitAnd(At(raw_packet, 1), PAYLOAD_TYPE_MASK),
     sequence_number |-> U16FromBe(raw_packet, SEQ_NUM_OFFSET),
     timestamp |-> U32FromBe(raw_packet, TIMESTAMP_OFFSET),
     ssrc |-> U32FromBe(raw_packet, SSRC_OFFSET)]

\* the `if extension` block of from_raw: the profile, the payload and the
\* payload_offset after it
FromRawExtension(raw_packet, payload_offset) ==
    IF Len(raw_packet) < payload_offset + 4 THEN Err
    ELSE LET extension_length == 4 * U16FromBe(raw_packet, payload_offset + 2)
         IN IF Len(raw_packet) < payload_offset + 4 + extension_length THEN Err
            ELSE Ok([extension_profile |-> Some(U16FromBe(raw_packet, payload_offset)),
                     extension_payload |->
                         Some(SubSeq(raw_packet, payload_offset + 4 + 1,
                                     payload_offset + 4 + extension_length)),
                     payload_offset |-> payload_offset + 4 + extension_length])

NoExtension(payload_offset) ==
    Ok([extension_profile |-> None, extension_payload |-> None,
        payload_offset |-> payload_offset])

\* the Packet from_raw returns; raw is the value stored in the field raw
FromRawPacket(raw_packet, f, ext, raw) ==
    [version |-> f.version,
     padding |-> f.padding,
     extension |-> f.extension,
     marker |-> f.marker,
     payload_type |-> f.payload_type,
     sequence_number |-> f.sequence_number,
     timestamp |-> f.timestamp,
     ssrc |-> f.ssrc,
     csrc |-> [i \in 1..f.cc |-> U32FromBe(raw_packet, CSRC_OFFSET + CSRC_LENGTH * (i - 1))],
     extension_profile |-> ext.extension_profile,
     extension_payload |-> ext.extension_payload,
     payload_offset |-> ext.payload_offset,
     payload |-> SubSeq(raw_packet, ext.payload_offset + 1, Len(raw_packet)),
     raw |-> raw]

\* from_raw from the computation of payload_offset on; f are the fixed fields
FromRawCsrc(raw_packet, f) ==
    IF Len(raw_packet) < CSRC_OFFSET + CSRC_LENGTH * f.cc THEN Err
    ELSE LET ext == IF f.extension
                    THEN FromRawExtension(raw_packet, CSRC_OFFSET + CSRC_LENGTH * f.cc)
                    ELSE NoExtension(CSRC_OFFSET + CSRC_LENGTH * f.cc)
         IN IF ext.status = "err" THEN Err
            ELSE Ok(FromRawPacket(raw_packet, f, ext.v, Some(raw_packet)))

\* from_raw that does not keep the buffer it parsed
from_raw_uncached(raw_packet) ==
    IF Len(raw_packet) < HEADER_LENGHT THEN Err
    ELSE IF Len(raw_packet) <= SSRC_OFFSET + 3 THEN Panicked
    ELSE LET r == FromRawCsrc(raw_packet, FixedFields(raw_packet))
         IN IF r.status = "ok" THEN Ok([r.v EXCEPT !.raw = None]) ELSE r

\* Packet::from_raw.  The octets 4 to 11 (timestamp, ssrc) are read by index before
\* any length check other than the first: on a buffer of 4 to 11 octets the index is
\* out of bounds and the call panics.
from_raw(raw_packet) ==
    IF Len(raw_packet) < HEADER_LENGHT THEN Err
    ELSE IF Len(raw_packet) <= SSRC_OFFSET + 3 THEN Panicked
    ELSE FromRawCsrc(raw_packet, FixedFields(raw_packet))

\* Packet::header_size and Packet::packet_size
header_size(self) ==
    12 + Len(self.csrc) * CSRC_LENGTH
       + (IF self.extension_payload.some THEN 4 + Len(self.extension_payload.v) ELSE 0)

packet_size(self) == header_size(self) + Len(self.payload)

\* Vec::with_capacity: room for capacity octets, length 0
WithCapacity(capacity) == <<>>

\* `buffer[index] = byte` on a Vec: an index at or past the length panics
IndexSet(buffer, index, byte) ==
    IF index >= Len(buffer)
    THEN [panicked |-> TRUE, buffer |-> buffer]
    ELSE [panicked |-> FALSE, buffer |-> [buffer EXCEPT ![index + 1] = byte]]

\* a run of indexed stores <<index, byte>>, in order, up to the first that panics
RECURSIVE WriteAll(_, _)
WriteAll(buffer, writes) ==
    IF Len(writes) = 0 THEN [panicked |-> FALSE, buffer |-> buffer]
    ELSE LET r == IndexSet(buffer, Head(writes)[1], Head(writes)[2])
         IN IF r.panicked THEN r ELSE WriteAll(r.buffer, Tail(writes))

\* the stores of octets at the consecutive indexes from offset on
WritesAt(offset, octets) == [i \in 1..Len(octets) |-> <<offset + i - 1, octets[i]>>]

\* the two first octets to_raw composes
FirstOctet(self) ==
    BitOr(BitOr(BitOr((self.version * (2 ^ VERSION_SHIFT)) % U8, Len(self.csrc) % U8),
                IF self.padding THEN 2 ^ PADDING_SHIFT ELSE 0),
          IF self.extension THEN 2 ^ EXTENSION_SHIFT ELSE 0)

SecondOctet(self) ==
    BitOr(self.payload_type, IF self.marker THEN 2 ^ MARKER_SHIFT ELSE 0)

\* the stores of to_raw before it looks at the extension: the fixed header, then
\* each CSRC at `12 + payload_offset + offset` with payload_offset starting at 12
HeaderWrites(self) ==
    <<<<0, FirstOctet(self)>>, <<1, SecondOctet(self)>>>>
        \o WritesAt(2, U16ToBe(self.sequence_number))
        \o WritesAt(4, U32ToBe(self.timestamp))
        \o WritesAt(8, U32ToBe(self.ssrc))
        \o Flatten([i \in 1..Len(self.csrc) |->
                       WritesAt(12 + (12 + 4 * (i - 1)), U32ToBe(self.csrc[i]))])

\* the stores of the extension and of the payload, from payload_offset on
BodyWrites(self, payload_offset) ==
    IF self.extension_profile.some /\ self.extension_payload.some
    THEN WritesAt(payload_offset, U16ToBe(self.extension_profile.v))
         \o WritesAt(payload_offset + 2,
                     U16ToBe((Len(self.extension_payload.v) \div 4) % U16))
         \o WritesAt(payload_offset + 4, self.extension_payload.v)
         \o WritesAt(payload_offset + 4 + Len(self.extension_payload.v), self.payload)
    ELSE WritesAt(payload_offset, self.payload)

\* to_raw after the stores of the header; head is their outcome
ToRawBody(self, head) ==
    IF head.panicked THEN Panicked
    ELSE IF /\ self.extension_profile.some
            /\ self.extension_payload.some
            /\ Len(self.extension_payload.v) % 4 > 0
    THEN Err
    ELSE LET body == WriteAll(head.buffer, BodyWrites(self, 12 + 4 * Len(self.csrc)))
         IN IF body.panicked THEN Panicked ELSE Ok(body.buffer)

\* Packet::to_raw.  The buffer is made by Vec::with_capacity and has length 0, so
\* the first indexed store, `buffer[0] = ..`, is out of bounds.
to_raw(self) ==
    IF self.raw.some THEN Ok(self.raw.v)
    ELSE ToRawBody(self, WriteAll(WithCapacity(packet_size(self)), HeaderWrites(self)))

\* Packet::to_raw_mut: [self: the Packet afterwards, ret: the Result]
to_raw_mut(self) ==
    LET buffer == to_raw(self)
    IN IF buffer.status # "ok" THEN [self |-> self, ret |-> buffer]
       ELSE [self |-> IF ~self.raw.some THEN [self EXCEPT !.raw = Some(buffer.v)] ELSE self,
             ret |-> buffer]

----------------------------------------------------------------------------
(* The RTCP crate (rtcp/src): the common Header, the ReceptionReport block, the  *)
(* SenderReport and the Goodbye packet.  header.rs declares VERSION_MASK,        *)
(* VERSION_SHIFT, PADDING_MASK and PADDING_SHIFT with the values packet.rs gives *)
(* them, so the definitions above stand for both.  A u32 field is a pair         *)
(* <<hi, lo>> of 16-bit halves and a u64 field four 16-bit words, except         *)
(* total_lost, a u32 that is shifted and compared and is kept as one integer     *)
(* (the values drawn stay below 2^31).  A String is the sequence of its octets.  *)

RTCP_VERSION == 2
HEADER_LENGTH == 4
COUNT_MASK == 31

SSRC_LENGTH == 4
SSRC_MAX_COUNT == 31

RECEPTION_REPORT_LENGTH == 24
FRACTION_LOST_OFFSET == 4
TOTAL_LOST_OFFSET == 5
LAST_SEQUENCE_OFFSET == 8
JITTER_OFFSET == 12
LAST_SENDER_REPORT_OFFSET == 16
DELAY_OFFSET == 20

SR_HEADER_LENGTH == 24
SR_SSRC_OFFSET == 4
NTP_OFFSET == 8
RTP_OFFSET == 16
PACKET_COUNT_OFFSET == 20
BYTE_COUNT_OFFSET == 24
REPORTS_OFFSET == 28

REASON_MAX_LENGTH == 255

\* the enum PacketType with its discriminants
PacketTypes ==
    {"SenderReport", "ReceiverReport", "SourceDescription", "Goodbye",
     "ApplicationDefined", "TransportSpecificFeedback", "PayloadSpecificFeedback", "Unknown"}

\* `packet_type as u8`
PacketTypeAsU8(packet_type) ==
    CASE packet_type = "SenderReport" -> 200
      [] packet_type = "ReceiverReport" -> 201
      [] packet_type = "SourceDescription" -> 202
      [] packet_type = "Goodbye" -> 203
      [] packet_type = "ApplicationDefined" -> 204
      [] packet_type = "TransportSpecificFeedback" -> 205
      [] packet_type = "PayloadSpecificFeedback" -> 206
      [] OTHER -> 0

\* PacketType::from(byte): every octet outside 200..206 is Unknown
PacketTypeFrom(byte) ==
    CASE byte = 200 -> "SenderReport"
      [] byte = 201 -> "ReceiverReport"
      [] byte = 202 -> "SourceDescription"
      [] byte = 203 -> "Goodbye"
      [] byte = 204 -> "ApplicationDefined"
      [] byte = 205 -> "TransportSpecificFeedback"
      [] byte = 206 -> "PayloadSpecificFeedback"
      [] OTHER -> "Unknown"

\* Header::from_raw
Header_from_raw(raw_packet) ==
    IF Len(raw_packet) < HEADER_LENGTH THEN Err
    ELSE IF BitAnd(At(raw_packet, 0) \div (2 ^ VERSION_SHIFT), VERSION_MASK) # RTCP_VERSION
    THEN Err
    ELSE Ok([padding |->
                 BitAnd(At(raw_packet, 0) \div (2 ^ PADDING_SHIFT), PADDING_MASK) > 0,
             report_count |-> BitAnd(At(raw_packet, 0), COUNT_MASK),
             packet_type |-> PacketTypeFrom(At(raw_packet, 1)),
             length |-> U16FromBe(raw_packet, 2)])

\* Header::to_raw: four pushed zero octets, then the fields or-ed and copied in
Header_to_raw(self) ==
    IF self.report_count > 31 THEN Err
    ELSE Ok(<<BitOr(BitOr(BitOr(0, (RTCP_VERSION * (2 ^ VERSION_SHIFT)) % U8),
                          IF self.padding THEN 2 ^ PADDING_SHIFT ELSE 0),
                    self.report_count),
              BitOr(0, PacketTypeAsU8(self.packet_type))>>
            \o U16ToBe(self.length))

\* ReceptionReport::from_raw: total_lost is read with its first octet shifted most
ReceptionReport_from_raw(raw_packet) ==
    IF Len(raw_packet) < RECEPTION_REPORT_LENGTH THEN Err
    ELSE Ok([synchronization_source |-> U32FromBe(raw_packet, 0),
             fraction_lost |-> At(raw_packet, FRACTION_LOST_OFFSET),
             total_lost |->
                 BitOr(BitOr(At(raw_packet, TOTAL_LOST_OFFSET + 2),
                             At(raw_packet, TOTAL_LOST_OFFSET + 1) * (2 ^ 8)),
                       At(raw_packet, TOTAL_LOST_OFFSET) * (2 ^ 16)),
             last_sequence_number |-> U32FromBe(raw_packet, LAST_SEQUENCE_OFFSET),
             jitter |-> U32FromBe(raw_packet, JITTER_OFFSET),
             last_sender_report |-> U32FromBe(raw_packet, LAST_SENDER_REPORT_OFFSET),
             delay |-> U32FromBe(raw_packet, DELAY_OFFSET)])

\* the three octets `(self.total_lost >> 8 * i) as u8` for i in 0..3, stored at
\* TOTAL_LOST_OFFSET + i
TotalLostOctets(total_lost) == [i \in 1..3 |-> (total_lost \div (2 ^ (8 * (i - 1)))) % U8]

\* ReceptionReport::to_raw: 24 pushed zero octets, every store within them
ReceptionReport_to_raw(self) ==
    IF self.total_lost >= 2 ^ 25 THEN Err
    ELSE Ok(U32ToBe(self.synchronization_source)
            \o <<self.fraction_lost>>
            \o TotalLostOctets(self.total_lost)
            \o U32ToBe(self.last_sequence_number)
            \o U32ToBe(self.jitter)
            \o U32ToBe(self.last_sender_report)
            \o U32ToBe(self.delay))

\* u64::from_be_bytes of the octets at offset, as four 16-bit words, and to_be_bytes
U64FromBe(raw_packet, offset) ==
    <<U16FromBe(raw_packet, offset), U16FromBe(raw_packet, offset + 2),
      U16FromBe(raw_packet, offset + 4), U16FromBe(raw_packet, offset + 6)>>
U64ToBe(x) == U16ToBe(x[1]) \o U16ToBe(x[2]) \o U16ToBe(x[3]) \o U16ToBe(x[4])

\* the loop of SenderReport::from_raw over the report blocks, from block i on.  The
\* check before the slice is `offset > len`: a block that starts within the buffer
\* (or at its end) and does not fit is sliced out of bounds, which panics.
RECURSIVE SenderReportBlocks(_, _, _, _)
SenderReportBlocks(raw_packet, report_count, i, reports) ==
    IF i >= report_count THEN Ok(reports)
    ELSE LET offset == REPORTS_OFFSET + RECEPTION_REPORT_LENGTH * i
         IN IF offset > Len(raw_packet) THEN Err
            ELSE IF offset + RECEPTION_REPORT_LENGTH > Len(raw_packet) THEN Panicked
            ELSE LET report ==
                         ReceptionReport_from_raw(
                             SubSeq(raw_packet, offset + 1, offset + RECEPTION_REPORT_LENGTH))
                 IN IF report.status = "ok"
                    THEN SenderReportBlocks(raw_packet, report_count, i + 1,
                                            Append(reports, report.v))
                    ELSE Err

\* SenderReport::from_raw after the header is accepted
SenderReportFields(raw_packet, header, reports) ==
    IF reports.status # "ok" THEN reports
    ELSE IF Len(reports.v) # header.report_count THEN Err
    ELSE Ok([header |-> header,
             synchronization_source |-> U32FromBe(raw_packet, SR_SSRC_OFFSET),
             ntp_time |-> U64FromBe(raw_packet, NTP_OFFSET),
             rtp_time |-> U32FromBe(raw_packet, RTP_OFFSET),
             packet_count |-> U32FromBe(raw_packet, PACKET_COUNT_OFFSET),
             byte_count |-> U32FromBe(raw_packet, BYTE_COUNT_OFFSET),
             reports |-> reports.v,
             profile_extensions |->
                 IF REPORTS_OFFSET + RECEPTION_REPORT_LENGTH * header.report_count
                        < Len(raw_packet)
                 THEN Some(SubSeq(raw_packet,
                                  REPORTS_OFFSET
                                      + RECEPTION_REPORT_LENGTH * header.report_count + 1,
                                  Len(raw_packet)))
                 ELSE None])

\* SenderReport::from_raw
SenderReport_from_raw(raw_packet) ==
    IF Len(raw_packet) < HEADER_LENGTH + SR_HEADER_LENGTH THEN Err
    ELSE LET header == Header_from_raw(raw_packet)
         IN IF header.status # "ok" THEN Err
            ELSE IF header.v.packet_type # "SenderReport" THEN Err
            ELSE SenderReportFields(raw_packet, header.v,
                     SenderReportBlocks(raw_packet, header.v.report_count, 0, <<>>))

\* SenderReport::length
SenderReport_length(self) ==
    HEADER_LENGTH + SR_HEADER_LENGTH + Len(self.reports) * RECEPTION_REPORT_LENGTH
        + (IF self.profile_extensions.some THEN Len(self.profile_extensions.v) ELSE 0)

\* the zero octets pushed by `for _ in 0..output.len()` on a fresh Vec
PushZeros(output) == output \o Zeros(Len(output))

\* `buffer[from..to].copy_from_slice(src)`: the slice is out of bounds when to is
\* past the length, and the copy needs the two lengths equal; both panic
CopyFromSlice(buffer, from, to, src) ==
    IF from > to \/ to > Len(buffer) \/ to - from # Len(src)
    THEN [panicked |-> TRUE, buffer |-> buffer]
    ELSE [panicked |-> FALSE,
          buffer |-> [i \in 1..Len(buffer) |->
                         IF i > from /\ i <= to THEN src[i - from] ELSE buffer[i]]]

\* a run of slice copies <<from, to, src>>, in order, up to the first that panics
RECURSIVE CopyAll(_, _)
CopyAll(buffer, copies) ==
    IF Len(copies) = 0 THEN [panicked |-> FALSE, buffer |-> buffer]
    ELSE LET r == CopyFromSlice(buffer, Head(copies)[1], Head(copies)[2], Head(copies)[3])
         IN IF r.panicked THEN r ELSE CopyAll(r.buffer, Tail(copies))

\* the loop of SenderReport::to_raw over the reports, from report i (from 1) on,
\* and the copy of the profile extensions after it
RECURSIVE SenderReportToRawReports(_, _, _)
SenderReportToRawReports(self, output, i) ==
    IF i > Len(self.reports)
    THEN IF self.profile_extensions.some
         THEN LET r == CopyFromSlice(output,
                           REPORTS_OFFSET + RECEPTION_REPORT_LENGTH * Len(self.reports),
                           Len(output), self.profile_extensions.v)
              IN IF r.panicked THEN Panicked ELSE Ok(r.buffer)
         ELSE Ok(output)
    ELSE LET offset == REPORTS_OFFSET + RECEPTION_REPORT_LENGTH * (i - 1)
             export == ReceptionReport_to_raw(self.reports[i])
         IN IF export.status # "ok" THEN Err
            ELSE LET r == CopyFromSlice(output, offset, offset + Len(export.v), export.v)
                 IN IF r.panicked THEN Panicked
                    ELSE SenderReportToRawReports(self, r.buffer, i + 1)

\* SenderReport::to_raw from the slice `output[..SSRC_OFFSET]` on.  The slice is
\* taken before header.to_raw() is called; packet_count is copied to the slot of
\* rtp_time and nothing is copied to the slot of packet_count.
SenderReportToRawFrom(self, output) ==
    IF SR_SSRC_OFFSET > Len(output) THEN Panicked
    ELSE LET header == Header_to_raw(self.header)
         IN IF header.status # "ok" THEN Err
            ELSE LET r == CopyAll(output,
                              <<<<0, SR_SSRC_OFFSET, header.v>>,
                                <<SR_SSRC_OFFSET, NTP_OFFSET,
                                  U32ToBe(self.synchronization_source)>>,
                                <<NTP_OFFSET, RTP_OFFSET, U64ToBe(self.ntp_time)>>,
                                <<RTP_OFFSET, PACKET_COUNT_OFFSET, U32ToBe(self.packet_count)>>,
                                <<BYTE_COUNT_OFFSET, REPORTS_OFFSET,
                                  U32ToBe(self.byte_count)>>>>)
                 IN IF r.panicked THEN Panicked
                    ELSE IF Len(self.reports) > 31 THEN Err
                    ELSE SenderReportToRawReports(self, r.buffer, 1)

\* SenderReport::to_raw.  The output is made by Vec::with_capacity and has length
\* 0, so no zero octet is pushed and the first slice of it is out of bounds.
SenderReport_to_raw(self) ==
    SenderReportToRawFrom(self, PushZeros(WithCapacity(SenderReport_length(self))))

\* synchronization sources that start with the sender's own
SenderReport_synchronization_sources_withSender(self) ==
    <<self.synchronization_source>>
        \o [i \in 1..Len(self.reports) |-> self.reports[i].synchronization_source]

\* SenderReport::synchronization_sources
SenderReport_synchronization_sources(self) ==
    [i \in 1..Len(self.reports) |-> self.reports[i].synchronization_source]

\* a continuation octet of UTF-8
Continuation(byte) == byte \in 128..191

\* String::from_utf8 succeeds: the octets are well-formed UTF-8 (no overlong form,
\* no surrogate, nothing above U+10FFFF)
RECURSIVE ValidUtf8(_)
ValidUtf8(octets) ==
    IF Len(octets) = 0 THEN TRUE
    ELSE LET b == octets[1]
         IN IF b < 128 THEN ValidUtf8(Tail(octets))
            ELSE IF b \in 194..223
            THEN /\ Len(octets) >= 2
                 /\ Continuation(octets[2])
                 /\ ValidUtf8(SubSeq(octets, 3, Len(octets)))
            ELSE IF b \in 224..239
            THEN /\ Len(octets) >= 3
                 /\ octets[2] \in (IF b = 224 THEN 160..191
                                   ELSE IF b = 237 THEN 128..159 ELSE 128..191)
                 /\ Continuation(octets[3])
                 /\ ValidUtf8(SubSeq(octets, 4, Len(octets)))
            ELSE IF b \in 240..244
            THEN /\ Len(octets) >= 4
                 /\ octets[2] \in (IF b = 240 THEN 144..191
                                   ELSE IF b = 244 THEN 128..143 ELSE 128..191)
                 /\ Continuation(octets[3])
                 /\ Continuation(octets[4])
                 /\ ValidUtf8(SubSeq(octets, 5, Len(octets)))
            ELSE FALSE

\* the reason Goodbye::from_raw reads at reason_offset: a Result of an Option
GoodbyeReason(raw_packet, reason_offset) ==
    IF reason_offset < Len(raw_packet)
    THEN LET length == At(raw_packet, reason_offset)
         IN IF reason_offset + length + 1 > Len(raw_packet) THEN Err
            ELSE IF ValidUtf8(SubSeq(raw_packet, reason_offset + 1 + 1,
                                     reason_offset + length + 1))
            THEN Ok(Some(SubSeq(raw_packet, reason_offset + 1 + 1,
                                reason_offset + length + 1)))
            ELSE Err
    ELSE Ok(None)

\* sources read with the least significant half first
GoodbyeSources_swapped(raw_packet, report_count) ==
    [i \in 1..report_count |->
        <<U16FromBe(raw_packet, HEADER_LENGTH + SSRC_LENGTH * (i - 1) + 2),
          U16FromBe(raw_packet, HEADER_LENGTH + SSRC_LENGTH * (i - 1))>>]

\* the sources Goodbye::from_raw reads after the header
GoodbyeSources(raw_packet, report_count) ==
    [i \in 1..report_count |-> U32FromBe(raw_packet, HEADER_LENGTH + SSRC_LENGTH * (i - 1))]

\* Goodbye::from_raw
Goodbye_from_raw(raw_packet) ==
    LET header == Header_from_raw(raw_packet)
    IN IF header.status # "ok" THEN Err
       ELSE IF header.v.packet_type # "Goodbye" THEN Err
       ELSE IF Len(raw_packet) % 4 > 0 THEN Err
       ELSE IF HEADER_LENGTH + SSRC_LENGTH * header.v.report_count > Len(raw_packet) THEN Err
       ELSE LET reason == GoodbyeReason(raw_packet,
                              HEADER_LENGTH + SSRC_LENGTH * header.v.report_count)
            IN IF reason.status # "ok" THEN Err
               ELSE Ok([header |-> header.v,
                        reason |-> reason.v,
                        sources |-> GoodbyeSources(raw_packet, header.v.report_count)])

\* Goodbye::length
Goodbye_length(self) ==
    LET length == HEADER_LENGTH + SSRC_LENGTH * Len(self.sources)
                      + (IF self.reason.some THEN Len(self.reason.v) + 1 ELSE 0)
    IN length + (IF length % 4 > 0 THEN 4 - (length % 4) ELSE 0)

\* Goodbye::to_raw from the store of the reason on
GoodbyeToRawReason(self, output) ==
    IF self.reason.some
    THEN IF Len(self.reason.v) > REASON_MAX_LENGTH THEN Err
         ELSE LET offset == HEADER_LENGTH + SSRC_LENGTH * Len(self.sources)
                  length == IndexSet(output, offset, Len(self.reason.v) % U8)
              IN IF length.panicked THEN Panicked
                 ELSE LET r == CopyFromSlice(length.buffer, offset + 1,
                                             offset + Len(self.reason.v) + 1, self.reason.v)
                      IN IF r.panicked THEN Panicked ELSE Ok(r.buffer)
    ELSE Ok(output)

\* Goodbye::to_raw from the copy of the header on: each source is copied to a
\* slice of 3 octets
GoodbyeToRawFrom(self, marshalled_header, output) ==
    LET r == CopyAll(output,
                 <<<<0, HEADER_LENGTH, marshalled_header>>>>
                     \o [i \in 1..Len(self.sources) |->
                            <<HEADER_LENGTH + SSRC_LENGTH * (i - 1),
                              HEADER_LENGTH + SSRC_LENGTH * (i - 1) + 3,
                              U32ToBe(self.sources[i])>>])
    IN IF r.panicked THEN Panicked ELSE GoodbyeToRawReason(self, r.buffer)

\* Goodbye::to_raw.  The output is made by Vec::with_capacity and has length 0, so
\* no zero octet is pushed and the slice the header is copied to is out of bounds.
Goodbye_to_raw(self) ==
    IF Len(self.sources) > SSRC_MAX_COUNT THEN Err
    ELSE LET marshalled_header == Header_to_raw(self.header)
         IN IF marshalled_header.status # "ok" THEN Err
            ELSE GoodbyeToRawFrom(self, marshalled_header.v,
                                  PushZeros(WithCapacity(Goodbye_length(self))))

\* Goodbye::synchronization_sources
Goodbye_synchronization_sources(self) == self.sources

----------------------------------------------------------------------------
(* Inputs *)

\* octets the enumerated frames are made of: zero and one (start codes) and a NAL
\* header of type 5 with NRI 3
FrameOctets == {0, 1, 101}

RECURSIVE SeqsUpTo(_, _)
SeqsUpTo(S, n) ==
    IF n = 0 THEN {<<>>}
    ELSE LET shorter == SeqsUpTo(S, n - 1)
         IN shorter \cup {Append(q, x) : q \in {t \in shorter : Len(t) = n - 1}, x \in S}

\* the frame of the packetizer's own test: 128 zero octets
Zero128 == Zeros(128)

\* the octets 1, 2, ..., n
Counting(n) == [i \in 1..n |-> i]

\* frames given to the stand-alone generators: the short frames over FrameOctets
\* and one frame that takes two full fragments and a tail
FragFrames == SeqsUpTo(FrameOctets, MaxFrameLen) \cup {Counting(7)}

\* frames of the H.264 generator's tests, and one with the octets 0 1 0 1
H264Frames == {<<144, 144, 144>>, <<0, 0, 1, 144, 0, 0, 1, 144>>, <<9, 0, 0>>,
               <<0, 1, 0, 1, 101>>}

FragMtus == 0..MaxFragMtu \cup {8}

\* values the random source gives a VP9 picture id (a u16)
PictureIds == {0, 32767, 32768, 65535}

\* values the random source gives a sequence number (a u16)
SequenceSeeds == 0..2 \cup 65530..65535

\* frames given to a Packetizer: the empty frame, one octet, and the octets
\* 1, 2, 3, ...; the 128-octet frame goes with the mtu of the test that uses it
PacketizerFrames(self) ==
    {<<>>, Counting(1), Counting(MaxDataLen)}
        \cup (IF self.mtu = 100 /\ self.generator.kind # "H264" THEN {Zero128} ELSE {})
PacketizerMtus == {12, 13, 14, 16, 100}
PacketizerKinds == {"G711", "G722", "Opus", "VP8", "VP9", "H264"}
PacketizerSeeds == {65533}
\* u32 values as <<hi, lo>>
Timestamps == {<<65535, 65000>>}
Samples == {<<0, 300>>, <<65535, 65535>>}
PayloadType == 98
Ssrc == 305441741
\* NTP times read from the clock, as 8 octets
NtpTimes == {<<225, 218, 140, 175, 18, 52, 86, 120>>}
ExtensionNumbers == {AbsSendTime(3), Unknown}

\* a marshalled RTP packet: the fixed header of the tests of packet.rs with the
\* given version, extension bit, marker and CSRC count, cc CSRCs, an extension of
\* profile 1 and `words` words when the extension bit is set, and the payload
WireBuffer(version, extension, marker, cc, words, payload) ==
    <<version * 64 + (IF extension THEN 16 ELSE 0) + cc, (IF marker THEN 128 ELSE 0) + 96,
      105, 143, 217, 194, 147, 218, 28, 100, 39, 130>>
        \o Flatten([i \in 1..cc |-> <<161, 178, 195, i>>])
        \o (IF extension THEN <<0, 1, 0, words>> \o [i \in 1..(4 * words) |-> 255] ELSE <<>>)
        \o payload

WirePayloads == {<<>>, <<152, 54>>}

WellFormedBuffers ==
    {WireBuffer(2, x[1], marker, cc, x[2], payload) :
        x \in {<<FALSE, 0>>} \cup {<<TRUE, w>> : w \in 0..MaxExtensionWords},
        marker \in BOOLEAN, cc \in 0..MaxCsrc, payload \in WirePayloads}

\* buffers given to from_raw: the well-formed buffers of version 2, all their
\* prefixes, and buffers of the versions 0, 1 and 3
Buffers ==
    UNION {{SubSeq(b, 1, n) : n \in 0..Len(b)} : b \in WellFormedBuffers}
        \cup {WireBuffer(v, FALSE, TRUE, 0, 0, <<152, 54>>) : v \in {0, 1, 3}}

\* a Packet built field by field, as packetize builds it: no raw buffer
BuiltPacket(cc, extension, payload) ==
    [version |-> PACKET_VERSION,
     padding |-> FALSE,
     extension |-> extension.some,
     marker |-> TRUE,
     payload_type |-> 96,
     sequence_number |-> 27023,
     timestamp |-> <<55746, 37850>>,
     ssrc |-> <<7268, 10114>>,
     csrc |-> [i \in 1..cc |-> <<41394, 50132 + i>>],
     extension_profile |-> IF extension.some THEN Some(48862) ELSE None,
     extension_payload |-> extension,
     payload_offset |-> HEADER_SIZE,
     payload |-> payload,
     raw |-> None]

\* extension payloads of built packets: none, the one packetize builds, 3 octets
BuiltExtensions == {None, Some(<<50, 120, 120, 120>>), Some(<<1, 2, 3>>)}

BuiltPackets ==
    {BuiltPacket(cc, extension, payload) :
        cc \in 0..MaxCsrc, extension \in BuiltExtensions, payload \in WirePayloads}

\* assignments to the public fields of a Packet: <<field, value>>
FieldUpdates ==
    {<<"marker", FALSE>>, <<"marker", TRUE>>, <<"payload", <<7>>>>,
     <<"extension_payload", Some(<<1, 2, 3>>)>>}

\* buffers given to Header::from_raw: first octets of version 2 (report counts 0,
\* 1 and 31, with and without padding) and of the versions 0, 1 and 3, packet-type
\* octets within and outside 200..206, two lengths; buffers shorter and longer
\* than a header
HeaderFirstOctets == {128, 129, 161, 159, 1, 65, 193}
HeaderTypeOctets == {0, 1, 199, 207, 255} \cup 200..206
HeaderBuffers ==
    {<<a, b>> \o l : a \in HeaderFirstOctets, b \in HeaderTypeOctets, l \in {<<0, 7>>, <<1, 2>>}}
        \cup {SubSeq(<<129, 201, 0, 7>>, 1, n) : n \in 0..3}
        \cup {<<129, 201, 0, 7, 9>>, <<129, 1, 0, 7, 9, 9>>}

\* Header values built field by field
Headers ==
    [padding : BOOLEAN, report_count : {0, 1, 31, 32}, packet_type : PacketTypes,
     length : {7, 258}]

\* a marshalled reception report: the block of the test of sender_report.rs with
\* the given last octet of the SSRC, fraction lost and three octets of total lost
ReportBuffer(source, fraction, lost) ==
    <<188, 94, 154, source, fraction>> \o lost
        \o <<0, 0, 70, 225, 0, 0, 1, 17, 9, 243, 100, 50, 0, 2, 74, 121>>

TotalLostWires == {<<0, 0, 0>>, <<1, 2, 3>>, <<0, 1, 0>>, <<255, 255, 255>>}

\* buffers given to ReceptionReport::from_raw: 24 octets, fewer and more
ReportBuffers ==
    {ReportBuffer(64, fraction, lost) : fraction \in {0, 37}, lost \in TotalLostWires}
        \cup {SubSeq(ReportBuffer(64, 0, <<0, 0, 0>>), 1, n) : n \in {0, 23}}
        \cup {ReportBuffer(64, 0, <<1, 2, 3>>) \o <<9>>}

\* ReceptionReport values built field by field
Report(source, fraction, total_lost) ==
    [synchronization_source |-> <<48222, 39424 + source>>,
     fraction_lost |-> fraction,
     total_lost |-> total_lost,
     last_sequence_number |-> <<0, 18145>>,
     jitter |-> <<0, 273>>,
     last_sender_report |-> <<2547, 25650>>,
     delay |-> <<2, 19065>>]

TotalLosts == {0, 1, 66051, 2 ^ 24 - 1, 2 ^ 24, 2 ^ 25 - 1, 2 ^ 25, 2 ^ 25 + 1}

Reports == {Report(64, fraction, lost) : fraction \in {0, 37}, lost \in TotalLosts}

\* a marshalled Sender Report: the packet of the test of sender_report.rs with the
\* given two first octets, `blocks` reception reports and the octets ext after them
SrBuffer(first, type, blocks, ext) ==
    <<first, type>> \o U16ToBe(6 + 6 * blocks)
        \o <<144, 47, 158, 46, 218, 139, 209, 252, 221, 221, 160, 90,
             170, 244, 237, 213, 0, 0, 0, 1, 0, 0, 0, 2>>
        \o Flatten([i \in 1..blocks |-> ReportBuffer(64 + i, 0, <<0, 0, i - 1>>)])
        \o ext

ProfileExtensions == {<<>>, <<1, 2, 3, 4>>}

WellFormedSrBuffers ==
    {SrBuffer(128 + rc, 200, rc, ext) : rc \in 0..MaxReports, ext \in ProfileExtensions}

\* buffers given to SenderReport::from_raw: the well-formed ones, all their
\* prefixes, and packets of another type, of another version, and with a report
\* count one above the blocks that follow
SrBuffers ==
    UNION {{SubSeq(b, 1, n) : n \in 0..Len(b)} : b \in WellFormedSrBuffers}
        \cup {SrBuffer(128 + rc, 201, rc, <<>>) : rc \in 0..MaxReports}
        \cup {SrBuffer(rc, 200, rc, <<>>) : rc \in 0..MaxReports}
        \cup {SrBuffer(128 + rc + 1, 200, rc, <<>>) : rc \in 0..MaxReports}

\* SenderReport values built field by field: n reports under a header that
\* declares report_count of them
SrValue(report_count, n, ext) ==
    [header |-> [padding |-> FALSE, report_count |-> report_count,
                 packet_type |-> "SenderReport", length |-> 6 + 6 * n],
     synchronization_source |-> <<36911, 40494>>,
     ntp_time |-> <<55947, 53756, 56797, 41050>>,
     rtp_time |-> <<43764, 60885>>,
     packet_count |-> <<0, 1>>,
     byte_count |-> <<0, 2>>,
     reports |-> [i \in 1..n |-> Report(64 + i, 0, i - 1)],
     profile_extensions |-> IF Len(ext) > 0 THEN Some(ext) ELSE None]

SrValues ==
    {SrValue(n, n, ext) : n \in 0..MaxReports, ext \in ProfileExtensions}
        \cup {SrValue(32, n, <<>>) : n \in 0..MaxReports}

\* the octets after the sources of a Goodbye: nothing, the reason "FOO", a length
\* past the end, a length that leaves the packet unaligned, octets that are not
\* UTF-8, a two-octet character, an empty reason, a padded reason
GoodbyeTails ==
    {<<>>, <<3, 70, 79, 79>>, <<4, 70, 79, 79>>, <<1, 70>>, <<2, 195, 40, 0>>,
     <<2, 195, 169, 0>>, <<0, 0, 0, 0>>, <<1, 70, 0, 0>>}

\* a marshalled Goodbye: the packet of the tests of goodbye.rs with the given two
\* first octets, n sources and the octets tail after them
GoodbyeBuffer(first, type, n, tail) ==
    <<first, type, 0, 12>> \o Flatten([i \in 1..n |-> <<144, 47, 158, 45 + i>>]) \o tail

\* buffers given to Goodbye::from_raw: report counts at, below and above the
\* number of sources, another packet type, another version, less than a header
GoodbyeBuffers ==
    {GoodbyeBuffer(128 + rc, 203, n, tail) :
        rc \in 0..(MaxSources + 1), n \in 0..MaxSources, tail \in GoodbyeTails}
        \cup {GoodbyeBuffer(128 + n, 202, n, <<3, 70, 79, 79>>) : n \in 0..MaxSources}
        \cup {GoodbyeBuffer(n, 203, n, <<3, 70, 79, 79>>) : n \in 0..MaxSources}
        \cup {SubSeq(<<129, 203, 0, 12>>, 1, n) : n \in 0..3}

\* Goodbye values built field by field: n sources under a header that declares
\* report_count of them
GoodbyeValue(report_count, n, reason) ==
    [header |-> [padding |-> FALSE, report_count |-> report_count,
                 packet_type |-> "Goodbye", length |-> 12],
     sources |-> [i \in 1..n |-> <<36911, 40493 + i>>],
     reason |-> reason]

\* reasons: none, "FOO", one of 256 octets
GoodbyeReasons == {None, Some(<<70, 79, 79>>), Some([i \in 1..256 |-> 70])}

GoodbyeValues ==
    {GoodbyeValue(n, n, reason) : n \in 0..MaxSources, reason \in GoodbyeReasons}
        \cup {GoodbyeValue(31, 32, reason) : reason \in GoodbyeReasons}
        \cup {GoodbyeValue(32, n, None) : n \in 0..MaxSources}

----------------------------------------------------------------------------
(* States of the parts a specification leaves alone *)

IdleSeqr == [self |-> SequencerNew(0), s0 |-> 0, n |-> 0, ret |-> 0, status |-> "idle"]
IdleFrag == [mtu |-> 0, payload |-> <<>>]
NotCalled == [called |-> FALSE, status |-> "ok", out |-> None]
IdleFragOut == [g711 |-> NotCalled, g722 |-> NotCalled, opus |-> NotCalled,
                vp8 |-> NotCalled, h264 |-> NotCalled, vp9 |-> NotCalled]
IdleVp9 == [self |-> VP9PayloadGenerator(0, TRUE), before |-> VP9PayloadGenerator(0, TRUE),
            n |-> 0]
IdlePacketizer == PacketizerNew(0, 0, 0, "G711", <<0, 0>>, 0, 0)
NoExport == [called |-> FALSE, by |-> "", of |-> BuiltPacket(0, None, <<>>), ret |-> Err]
IdleWire == [stage |-> "idle", source |-> "none", buffer |-> <<>>, packet |-> BuiltPacket(0, None, <<>>),
             parsed |-> FALSE, updated |-> FALSE, export |-> NoExport, ops |-> 0]
\* the record of a call: its argument and what it returned
NoOutcome == [called |-> FALSE, of |-> <<>>, ret |-> Err]
Outcome(of, ret) == [called |-> TRUE, of |-> of, ret |-> ret]
IdleRtcp == [kind |-> "none", source |-> "none", buffer |-> <<>>, value |-> <<>>,
             parse |-> NoOutcome, emit |-> NoOutcome, ssrcs |-> NoOutcome]
FromBuffer(kind, b) == [IdleRtcp EXCEPT !.kind = kind, !.source = "buffer", !.buffer = b]
FromValue(kind, v) == [IdleRtcp EXCEPT !.kind = kind, !.source = "value", !.value = v]
IdleCall == [data |-> <<>>, samples |-> <<0, 0>>, time |-> <<0, 0, 0, 0, 0, 0, 0, 0>>,
             before |-> IdlePacketizer,
             emitted_before |-> -1, ret |-> "init", at |-> "", packets |-> <<>>]

----------------------------------------------------------------------------
(* The stand-alone Sequencer *)

InitSequencer ==
    /\ overflow_checks \in BOOLEAN
    /\ \E s \in SequenceSeeds :
          seqr = [self |-> SequencerNew(s), s0 |-> s, n |-> 0, ret |-> s, status |-> "ok"]
    /\ frag = IdleFrag
    /\ fragOut = IdleFragOut
    /\ vp9gen = IdleVp9
    /\ packetizer = IdlePacketizer
    /\ call = IdleCall
    /\ emitted = -1
    /\ calls = 0
    /\ wire = IdleWire
    /\ rtcp = IdleRtcp

\* one call of next_sequence_number; a panic ends the program
SequencerNext ==
    /\ seqr.status = "ok"
    /\ seqr.n < MaxNext
    /\ LET r == next_sequence_number(seqr.self)
       IN seqr' = [seqr EXCEPT !.self = r.self,
                               !.n = @ + 1,
                               !.ret = r.ret,
                               !.status = IF r.panicked THEN "panic" ELSE "ok"]
    /\ UNCHANGED <<overflow_checks, frag, fragOut, vp9gen, packetizer, call, emitted, calls, wire, rtcp>>

NextSequencer == SequencerNext

SpecSequencer == InitSequencer /\ [][NextSequencer]_vars

----------------------------------------------------------------------------
(* The stand-alone payload generators: each is called on the drawn (mtu, frame), *)
(* in the order G.711, G.722, Opus, VP8, H.264, and then VP9 repeatedly.         *)

InitFragmenter ==
    /\ overflow_checks \in BOOLEAN
    /\ seqr = IdleSeqr
    /\ \E m \in FragMtus, f \in FragFrames \cup H264Frames :
          frag = [mtu |-> m, payload |-> f]
    /\ fragOut = IdleFragOut
    /\ \E g \in {VP9PayloadGenerator(pid, TRUE) : pid \in PictureIds}
               \cup {VP9PayloadGenerator(0, FALSE)} :
          vp9gen = [self |-> g, before |-> g, n |-> 0]
    /\ packetizer = IdlePacketizer
    /\ call = IdleCall
    /\ emitted = -1
    /\ calls = 0
    /\ wire = IdleWire
    /\ rtcp = IdleRtcp

Called(status, out) == [called |-> TRUE, status |-> status, out |-> out]

FragUnchanged == UNCHANGED <<overflow_checks, seqr, frag, packetizer, call, emitted, calls, wire, rtcp>>

GenerateG711 ==
    /\ ~fragOut.g711.called
    /\ fragOut' = [fragOut EXCEPT !.g711 = Called("ok", G711Generate(frag.mtu, frag.payload))]
    /\ UNCHANGED vp9gen
    /\ FragUnchanged

GenerateG722 ==
    /\ fragOut.g711.called /\ ~fragOut.g722.called
    /\ fragOut' = [fragOut EXCEPT !.g722 = Called("ok", G722Generate(frag.mtu, frag.payload))]
    /\ UNCHANGED vp9gen
    /\ FragUnchanged

GenerateOpus ==
    /\ fragOut.g722.called /\ ~fragOut.opus.called
    /\ fragOut' = [fragOut EXCEPT !.opus = Called("ok", OpusGenerate(frag.mtu, frag.payload))]
    /\ UNCHANGED vp9gen
    /\ FragUnchanged

GenerateVP8 ==
    /\ fragOut.opus.called /\ ~fragOut.vp8.called
    /\ fragOut' = [fragOut EXCEPT !.vp8 = Called("ok", VP8Generate(frag.mtu, frag.payload))]
    /\ UNCHANGED vp9gen
    /\ FragUnchanged

\* a panic or a hang of the H.264 generator is observed and the next generator tried
GenerateH264 ==
    /\ fragOut.vp8.called /\ ~fragOut.h264.called
    /\ LET r == H264Generate(frag.mtu, frag.payload)
       IN fragOut' = [fragOut EXCEPT !.h264 = Called(r.status, r.out)]
    /\ UNCHANGED vp9gen
    /\ FragUnchanged

\* a panic of the VP9 generator ends the program
GenerateVP9 ==
    /\ fragOut.h264.called
    /\ fragOut.vp9.status = "ok"
    /\ vp9gen.n < MaxVp9Calls
    /\ \E rnd \in IF vp9gen.self.initialized THEN {0} ELSE PictureIds :
          LET r == VP9Generate(vp9gen.self, frag.mtu, frag.payload, rnd)
          IN /\ fragOut' = [fragOut EXCEPT !.vp9 = Called(r.status, r.out)]
             /\ vp9gen' = [self |-> r.self, before |-> vp9gen.self, n |-> vp9gen.n + 1]
    /\ FragUnchanged

NextFragmenter ==
    \/ GenerateG711
    \/ GenerateG722
    \/ GenerateOpus
    \/ GenerateVP8
    \/ GenerateH264
    \/ GenerateVP9

SpecFragmenter == InitFragmenter /\ [][NextFragmenter]_vars

----------------------------------------------------------------------------
(* The Packetizer *)

Init ==
    /\ overflow_checks \in BOOLEAN
    /\ seqr = IdleSeqr
    /\ frag = IdleFrag
    /\ fragOut = IdleFragOut
    /\ vp9gen = IdleVp9
    /\ \E mtu \in PacketizerMtus, kind \in PacketizerKinds, ts \in Timestamps,
          seq \in PacketizerSeeds :
          \E pid \in IF kind = "VP9" THEN PictureIds ELSE {0} :
             packetizer = PacketizerNew(mtu, PayloadType, Ssrc, kind, ts, seq, pid)
    /\ call = IdleCall
    /\ emitted = -1
    /\ calls = 0
    /\ wire = IdleWire
    /\ rtcp = IdleRtcp

\* one call of packetize; a panic or a hang ends the program
Packetize(data, samples, time) ==
    /\ call.ret \notin {"panic", "hang"}
    /\ calls < MaxCalls
    /\ LET r == packetize(packetizer, data, samples, time)
       IN /\ packetizer' = r.self
          /\ call' = [data |-> data, samples |-> samples, time |-> time,
                      before |-> packetizer,
                      emitted_before |-> emitted, ret |-> r.ret, at |-> r.at,
                      packets |-> r.packets]
          /\ emitted' = IF r.ret = "some"
                        THEN r.packets[Len(r.packets)].sequence_number
                        ELSE emitted
    /\ calls' = calls + 1
    /\ UNCHANGED <<overflow_checks, seqr, frag, fragOut, vp9gen, wire, rtcp>>

AddExtensionNumber(extension) ==
    /\ call.ret \notin {"panic", "hang"}
    /\ Len(packetizer.extensions) < MaxExtensions
    /\ packetizer' = add_extension_number(packetizer, extension)
    /\ UNCHANGED <<overflow_checks, seqr, frag, fragOut, vp9gen, call, emitted, calls, wire, rtcp>>

Next ==
    \/ \E data \in PacketizerFrames(packetizer), samples \in Samples, time \in NtpTimes :
          Packetize(data, samples, time)
    \/ \E extension \in ExtensionNumbers : AddExtensionNumber(extension)

Spec == Init /\ [][Next]_vars

----------------------------------------------------------------------------
(* A Packet: parsed by from_raw from a buffer or built field by field, then its *)
(* public fields assigned and to_raw or to_raw_mut called.                      *)

InitPacket ==
    /\ overflow_checks \in BOOLEAN
    /\ seqr = IdleSeqr
    /\ frag = IdleFrag
    /\ fragOut = IdleFragOut
    /\ vp9gen = IdleVp9
    /\ packetizer = IdlePacketizer
    /\ call = IdleCall
    /\ emitted = -1
    /\ calls = 0
    /\ \/ \E b \in Buffers :
             wire = [IdleWire EXCEPT !.stage = "buffer", !.source = "buffer", !.buffer = b]
       \/ \E p \in BuiltPackets :
             wire = [IdleWire EXCEPT !.stage = "packet", !.source = "built", !.packet = p]
    /\ rtcp = IdleRtcp

WireUnchanged ==
    UNCHANGED <<overflow_checks, seqr, frag, fragOut, vp9gen, packetizer, call, emitted, calls, rtcp>>

\* Packet::from_raw(&buffer); a panic ends the program
FromRaw ==
    /\ wire.stage = "buffer"
    /\ LET r == from_raw(wire.buffer)
       IN wire' = [wire EXCEPT !.stage = IF r.status = "ok" THEN "packet"
                                         ELSE IF r.status = "err" THEN "error"
                                         ELSE "panic",
                               !.packet = IF r.status = "ok" THEN r.v ELSE @,
                               !.parsed = (r.status = "ok")]
    /\ WireUnchanged

\* packet.field = value
SetField(field, value) ==
    /\ wire.stage = "packet"
    /\ wire.ops < MaxPacketOps
    /\ wire.packet[field] # value
    /\ wire' = [wire EXCEPT !.packet[field] = value, !.updated = TRUE, !.ops = @ + 1]
    /\ WireUnchanged

\* packet.to_raw(); a panic ends the program
ToRaw ==
    /\ wire.stage = "packet"
    /\ wire.ops < MaxPacketOps
    /\ LET r == to_raw(wire.packet)
       IN wire' = [wire EXCEPT !.stage = IF r.status = "panic" THEN "panic" ELSE @,
                               !.export = [called |-> TRUE, by |-> "to_raw",
                                           of |-> wire.packet, ret |-> r],
                               !.ops = @ + 1]
    /\ WireUnchanged

\* packet.to_raw_mut(); a panic ends the program
ToRawMut ==
    /\ wire.stage = "packet"
    /\ wire.ops < MaxPacketOps
    /\ LET r == to_raw_mut(wire.packet)
       IN wire' = [wire EXCEPT !.stage = IF r.ret.status = "panic" THEN "panic" ELSE @,
                               !.packet = r.self,
                               !.export = [called |-> TRUE, by |-> "to_raw_mut",
                                           of |-> wire.packet, ret |-> r.ret],
                               !.ops = @ + 1]
    /\ WireUnchanged

NextPacket ==
    \/ FromRaw
    \/ \E u \in FieldUpdates : SetField(u[1], u[2])
    \/ ToRaw
    \/ ToRawMut

SpecPacket == InitPacket /\ [][NextPacket]_vars

----------------------------------------------------------------------------
(* The RTCP codecs: a Header, a ReceptionReport, a SenderReport or a Goodbye is  *)
(* parsed from a buffer and the value exported again, or is built field by field *)
(* and exported and the export parsed again.  A panic ends the program.          *)

InitRtcp ==
    /\ overflow_checks \in BOOLEAN
    /\ seqr = IdleSeqr
    /\ frag = IdleFrag
    /\ fragOut = IdleFragOut
    /\ vp9gen = IdleVp9
    /\ packetizer = IdlePacketizer
    /\ call = IdleCall
    /\ emitted = -1
    /\ calls = 0
    /\ wire = IdleWire
    /\ \/ \E b \in HeaderBuffers : rtcp = FromBuffer("Header", b)
       \/ \E v \in Headers : rtcp = FromValue("Header", v)
       \/ \E b \in ReportBuffers : rtcp = FromBuffer("ReceptionReport", b)
       \/ \E v \in Reports : rtcp = FromValue("ReceptionReport", v)
       \/ \E b \in SrBuffers : rtcp = FromBuffer("SenderReport", b)
       \/ \E v \in SrValues : rtcp = FromValue("SenderReport", v)
       \/ \E b \in GoodbyeBuffers : rtcp = FromBuffer("Goodbye", b)
       \/ \E v \in GoodbyeValues : rtcp = FromValue("Goodbye", v)

RtcpUnchanged ==
    UNCHANGED <<overflow_checks, seqr, frag, fragOut, vp9gen, packetizer, call, emitted, calls, wire>>

\* the buffer at hand: the one given, or the export of the value given
HasBuffer ==
    \/ rtcp.source = "buffer"
    \/ rtcp.source = "value" /\ rtcp.emit.called /\ rtcp.emit.ret.status = "ok"
TheBuffer == IF rtcp.source = "buffer" THEN rtcp.buffer ELSE rtcp.emit.ret.v

\* the value at hand: the one given, or the one parsed from the buffer given
HasValue ==
    \/ rtcp.source = "value"
    \/ rtcp.source = "buffer" /\ rtcp.parse.called /\ rtcp.parse.ret.status = "ok"
TheValue == IF rtcp.source = "value" THEN rtcp.value ELSE rtcp.parse.ret.v

\* no call has panicked
Running == rtcp.parse.ret.status # "panic" /\ rtcp.emit.ret.status # "panic"

\* a call of from_raw, of to_raw and of synchronization_sources can be made on
\* the kind at hand; each is made once
CanParse(kind) == rtcp.kind = kind /\ Running /\ HasBuffer /\ ~rtcp.parse.called
CanExport(kind) == rtcp.kind = kind /\ Running /\ HasValue /\ ~rtcp.emit.called
CanGetSources(kind) == rtcp.kind = kind /\ Running /\ HasValue /\ ~rtcp.ssrcs.called

\* Header::from_raw(&buffer)
HeaderFromRaw ==
    /\ CanParse("Header")
    /\ rtcp' = [rtcp EXCEPT !.parse = Outcome(TheBuffer, Header_from_raw(TheBuffer))]
    /\ RtcpUnchanged

\* header.to_raw()
HeaderToRaw ==
    /\ CanExport("Header")
    /\ rtcp' = [rtcp EXCEPT !.emit = Outcome(TheValue, Header_to_raw(TheValue))]
    /\ RtcpUnchanged

\* ReceptionReport::from_raw(&buffer)
ReceptionReportFromRaw ==
    /\ CanParse("ReceptionReport")
    /\ rtcp' = [rtcp EXCEPT !.parse = Outcome(TheBuffer, ReceptionReport_from_raw(TheBuffer))]
    /\ RtcpUnchanged

\* report.to_raw()
ReceptionReportToRaw ==
    /\ CanExport("ReceptionReport")
    /\ rtcp' = [rtcp EXCEPT !.emit = Outcome(TheValue, ReceptionReport_to_raw(TheValue))]
    /\ RtcpUnchanged

\* SenderReport::from_raw(&buffer)
SenderReportFromRaw ==
    /\ CanParse("SenderReport")
    /\ rtcp' = [rtcp EXCEPT !.parse = Outcome(TheBuffer, SenderReport_from_raw(TheBuffer))]
    /\ RtcpUnchanged

\* sender_report.to_raw()
SenderReportToRaw ==
    /\ CanExport("SenderReport")
    /\ rtcp' = [rtcp EXCEPT !.emit = Outcome(TheValue, SenderReport_to_raw(TheValue))]
    /\ RtcpUnchanged

\* sender_report.synchronization_sources()
SenderReportSynchronizationSources ==
    /\ CanGetSources("SenderReport")
    /\ rtcp' = [rtcp EXCEPT !.ssrcs =
                    Outcome(TheValue, SenderReport_synchronization_sources(TheValue))]
    /\ RtcpUnchanged

\* Goodbye::from_raw(&buffer)
GoodbyeFromRaw ==
    /\ CanParse("Goodbye")
    /\ rtcp' = [rtcp EXCEPT !.parse = Outcome(TheBuffer, Goodbye_from_raw(TheBuffer))]
    /\ RtcpUnchanged

\* goodbye.to_raw()
GoodbyeToRaw ==
    /\ CanExport("Goodbye")
    /\ rtcp' = [rtcp EXCEPT !.emit = Outcome(TheValue, Goodbye_to_raw(TheValue))]
    /\ RtcpUnchanged

\* goodbye.synchronization_sources()
GoodbyeSynchronizationSources ==
    /\ CanGetSources("Goodbye")
    /\ rtcp' = [rtcp EXCEPT !.ssrcs =
                    Outcome(TheValue, Goodbye_synchronization_sources(TheValue))]
    /\ RtcpUnchanged

NextRtcp ==
    \/ HeaderFromRaw
    \/ HeaderToRaw
    \/ ReceptionReportFromRaw
    \/ ReceptionReportToRaw
    \/ SenderReportFromRaw
    \/ SenderReportToRaw
    \/ SenderReportSynchronizationSources
    \/ GoodbyeFromRaw
    \/ GoodbyeToRaw
    \/ GoodbyeSynchronizationSources

SpecRtcp == InitRtcp /\ [][NextRtcp]_vars

----------------------------------------------------------------------------
(* Claims about the Sequencer (SpecSequencer) *)

\* C4: for a Sequencer starting at s0 with rollover count 0, the k-th call of next
\* returns (s0 + k) mod 2^16, every call returns normally, also the one taken at
\* 0xFFFF, and after n calls the rollover count is floor((s0 + n) / 2^16).
C4_NextWrapsAndCounts ==
    seqr.status # "idle" =>
        /\ seqr.status = "ok"
        /\ seqr.n > 0 => seqr.ret = (seqr.s0 + seqr.n) % U16
        /\ roll_over_count(seqr.self) = (seqr.s0 + seqr.n) \div U16

----------------------------------------------------------------------------
(* Claims about the Packetizer (Spec) *)

Returned == call.ret = "some"
NumPackets == Len(call.packets)

\* C1: of the packets one packetize call returns, exactly the last has marker = true.
C1_MarkerOnLastOnly ==
    Returned => \A i \in 1..NumPackets : call.packets[i].marker <=> (i = NumPackets)

\* C2: a packetize(frame, k) call that built its packets leaves current_timestamp at
\* its prior value plus k modulo 2^32, and the advance never fails abnormally.
C2_TimestampAdvancesModulo ==
    /\ Returned => packetizer.timestamp = Add32Wrapping(call.before.timestamp, call.samples)
    /\ ~(call.ret = "panic" /\ call.at = "timestamp")

Payloads == [i \in 1..NumPackets |-> call.packets[i].payload]

\* C3: the sequence numbers of the emitted packets, within a call and across
\* successive calls, are consecutive modulo 2^16.
C3_SequenceNumbersConsecutive ==
    Returned =>
        /\ \A i \in 2..NumPackets :
              call.packets[i].sequence_number
                  = (call.packets[i - 1].sequence_number + 1) % U16
        /\ call.emitted_before # -1 =>
              call.packets[1].sequence_number = (call.emitted_before + 1) % U16

\* a second call whose first packet follows 0xFFFF with 0x0000
C3_Witness ==
    /\ Returned
    /\ call.emitted_before = 65535
    /\ call.packets[1].sequence_number = 0
    /\ NumPackets >= 2

\* the call met one of the three conditions under which packetize returns none
NoneExpected ==
    /\ call.ret # "init"
    /\ \/ Len(call.data) = 0
       \/ call.before.mtu <= 12
       \/ LET g == Generate(call.before.generator, call.before.mtu - 12, call.data)
          IN g.status = "ok" /\ ~g.out.some

\* C5: packetize returns none when the frame is empty, mtu <= 12 or the fragmenter
\* returns none, and then leaves the timestamp, the sequencer and the VP9 picture
\* id unchanged.
C5_NoneLeavesState ==
    /\ NoneExpected => call.ret = "none"
    /\ call.ret = "none" =>
          /\ packetizer.timestamp = call.before.timestamp
          /\ packetizer.sequencer = call.before.sequencer
          /\ packetizer.generator = call.before.generator

\* the VP9 fragmenter returned none for a non-empty frame and an mtu above 12
C5_Witness ==
    /\ call.ret = "none"
    /\ Len(call.data) > 0
    /\ call.before.mtu > 12
    /\ call.before.generator.kind = "VP9"
    /\ call.before.generator.picture_id = 32767

\* C6: every packet of one packetize call has version 2, no padding, no CSRC, the
\* configured payload type and ssrc, and the timestamp the Packetizer had before
\* the call.
C6_PacketHeaderFields ==
    Returned =>
        \A i \in 1..NumPackets :
            /\ call.packets[i].version = 2
            /\ call.packets[i].padding = FALSE
            /\ call.packets[i].csrc = <<>>
            /\ call.packets[i].payload_type = call.before.payload_type
            /\ call.packets[i].ssrc = call.before.synchronization_source
            /\ call.packets[i].timestamp = call.before.timestamp

\* several packets were returned and the timestamp has advanced since
C6_Witness ==
    /\ Returned
    /\ NumPackets >= 2
    /\ packetizer.timestamp # call.before.timestamp

\* C7: the payloads of the returned packets are, in order, the fragments of the
\* fragmenter for (mtu - 12, frame): for G.711 and G.722 they concatenate to the
\* frame and have at most mtu - 12 octets (128 octets at mtu 100 give 88 and 40),
\* for Opus there is one packet carrying the frame, for VP8 they concatenate to
\* the frame once the 1-octet descriptors are stripped.
C7_PayloadsAreFragments ==
    Returned =>
        LET kind == call.before.generator.kind
            mtu == call.before.mtu
        IN /\ Payloads = Generate(call.before.generator, mtu - 12, call.data).out.v
           /\ kind \in {"G711", "G722"} =>
                 /\ Flatten(Payloads) = call.data
                 /\ \A i \in 1..NumPackets : Len(Payloads[i]) <= mtu - 12
                 /\ (Len(call.data) = 128 /\ mtu = 100) =>
                       [i \in 1..NumPackets |-> Len(Payloads[i])] = <<88, 40>>
           /\ kind = "Opus" => NumPackets = 1 /\ Payloads[1] = call.data
           /\ kind = "VP8" =>
                 Flatten([i \in 1..NumPackets |-> Tail(Payloads[i])]) = call.data

\* the G.722 packetizer of the test, mtu 100, given 128 octets
C7_Witness ==
    /\ Returned
    /\ call.before.generator.kind = "G722"
    /\ call.before.mtu = 100
    /\ Len(call.data) = 128
    /\ NumPackets = 2

----------------------------------------------------------------------------
(* Claims about the payload generators (SpecFragmenter) *)

Ceil(a, b) == (a + b - 1) \div b

\* out is the chunking of payload in mtu-sized chunks with a tail
Chunking(out, mtu, payload) ==
    /\ out.some <=> ~(mtu = 0 \/ Len(payload) = 0)
    /\ out.some =>
          /\ Len(out.v) = Ceil(Len(payload), mtu)
          /\ \A i \in 1..(Len(out.v) - 1) : Len(out.v[i]) = mtu
          /\ Len(out.v[Len(out.v)]) \in 1..mtu
          /\ Flatten(out.v) = payload

\* C8: the G.711 and G.722 fragmenters return none exactly when mtu = 0 or the
\* frame is empty; otherwise ceil(L / mtu) chunks in frame order, all of mtu octets
\* but the last, which has 1 to mtu octets, that concatenate to the frame; and both
\* give the same output for the same input.
C8_G711G722Chunking ==
    /\ fragOut.g711.called => Chunking(fragOut.g711.out, frag.mtu, frag.payload)
    /\ fragOut.g722.called =>
          /\ Chunking(fragOut.g722.out, frag.mtu, frag.payload)
          /\ fragOut.g722.out = fragOut.g711.out

\* both were called and gave two full chunks and a shorter tail
C8_Witness ==
    /\ fragOut.g722.called
    /\ fragOut.g722.out.some
    /\ Len(fragOut.g722.out.v) = 3
    /\ Len(fragOut.g722.out.v[3]) < frag.mtu

\* C9: the VP8 fragmenter returns none when mtu <= 1 or the frame is empty;
\* otherwise ceil(L / (mtu - 1)) fragments, each a 1-octet descriptor followed by
\* at most mtu - 1 frame octets, the descriptor 0x10 on the first fragment and 0x00
\* on every other, the data octets concatenating to the frame.
C9_VP8Fragments ==
    fragOut.vp8.called =>
        LET out == fragOut.vp8.out
            mtu == frag.mtu
            L == Len(frag.payload)
        IN IF mtu <= 1 \/ L = 0 THEN ~out.some
           ELSE /\ out.some
                /\ Len(out.v) = Ceil(L, mtu - 1)
                /\ \A i \in 1..Len(out.v) :
                      /\ Len(out.v[i]) \in 2..mtu
                      /\ out.v[i][1] = IF i = 1 THEN 16 ELSE 0
                /\ Flatten([i \in 1..Len(out.v) |-> Tail(out.v[i])]) = frag.payload

\* three fragments, the last one shorter than the others
C9_Witness ==
    /\ fragOut.vp8.called
    /\ fragOut.vp8.out.some
    /\ Len(fragOut.vp8.out.v) = 3
    /\ Len(fragOut.vp8.out.v[3]) < Len(fragOut.vp8.out.v[1])

\* C10: the VP9 fragmenter returns none when mtu <= 3 or the frame is empty;
\* otherwise each fragment is a 3-octet descriptor followed by at most mtu - 3
\* frame octets, byte 0 is 0x90 with 0x08 on exactly the first fragment and 0x04 on
\* exactly the fragment that consumes the last frame octet, byte 1 has bit 7 set,
\* and the data octets concatenate to the frame.
C10_VP9Fragments ==
    (fragOut.vp9.called /\ fragOut.vp9.status = "ok") =>
        LET out == fragOut.vp9.out
            mtu == frag.mtu
            L == Len(frag.payload)
        IN IF mtu <= 3 \/ L = 0 THEN ~out.some
           ELSE /\ out.some
                /\ \A i \in 1..Len(out.v) :
                      /\ Len(out.v[i]) \in 4..mtu
                      /\ out.v[i][1] = 144 + (IF i = 1 THEN 8 ELSE 0)
                                           + (IF i = Len(out.v) THEN 4 ELSE 0)
                      /\ out.v[i][2] >= 128
                /\ Flatten([i \in 1..Len(out.v) |->
                               SubSeq(out.v[i], 4, Len(out.v[i]))]) = frag.payload

\* a frame in three fragments: begin, middle, end
C10_Witness ==
    /\ fragOut.vp9.called
    /\ fragOut.vp9.status = "ok"
    /\ fragOut.vp9.out.some
    /\ Len(fragOut.vp9.out.v) = 3
    /\ fragOut.vp9.out.v[2][1] = 144

\* C11: over any sequence of VP9 generate calls on a freshly constructed generator,
\* the stored picture_id is always below 0x8000 (its random initial value included),
\* all fragments of a frame carry the same picture id in the low 7 bits of byte 1
\* and in byte 2, a successful call increments picture_id by one with 0x7FFF
\* followed by 0, and no call fails abnormally on the increment.
C11_PictureIdFifteenBits ==
    /\ vp9gen.self.picture_id < 32768
    /\ fragOut.vp9.status # "panic"
    /\ (fragOut.vp9.called /\ fragOut.vp9.status = "ok" /\ fragOut.vp9.out.some
           /\ vp9gen.before.initialized) =>
          /\ \A i \in 1..Len(fragOut.vp9.out.v) :
                /\ fragOut.vp9.out.v[i][2] % 128 = (vp9gen.before.picture_id \div 256) % 128
                /\ fragOut.vp9.out.v[i][3] = vp9gen.before.picture_id % 256
          /\ vp9gen.self.picture_id = IF vp9gen.before.picture_id = 32767 THEN 0
                                      ELSE vp9gen.before.picture_id + 1

----------------------------------------------------------------------------
(* Claims about the H.264 generator (SpecFragmenter) *)

\* the frame holds the octets 0 0 1 somewhere
HasStartCode(frame) ==
    \E i \in 1..(Len(frame) - 2) : SubSeq(frame, i, i + 2) = <<0, 0, 1>>

\* the regions that follow the start codes 0 0 0 1 and 0 0 1 of the frame, in order
RECURSIVE SplitAtStartCodes(_, _, _, _, _)
SplitAtStartCodes(frame, i, started, cur, acc) ==
    IF i >= Len(frame) THEN (IF started THEN Append(acc, cur) ELSE acc)
    ELSE IF i + 4 <= Len(frame) /\ SubSeq(frame, i + 1, i + 4) = <<0, 0, 0, 1>>
    THEN SplitAtStartCodes(frame, i + 4, TRUE, <<>>,
                           IF started THEN Append(acc, cur) ELSE acc)
    ELSE IF i + 3 <= Len(frame) /\ SubSeq(frame, i + 1, i + 3) = <<0, 0, 1>>
    THEN SplitAtStartCodes(frame, i + 3, TRUE, <<>>,
                           IF started THEN Append(acc, cur) ELSE acc)
    ELSE SplitAtStartCodes(frame, i + 1, started, Append(cur, frame[i + 1]), acc)

\* the NAL units of a frame: the whole frame when it holds no start code
NalUnits(frame) ==
    IF HasStartCode(frame) THEN SplitAtStartCodes(frame, 0, FALSE, <<>>, <<>>)
    ELSE <<frame>>

NalType(unit) == BitAnd(unit[1], 31)
NalRefIdc(unit) == BitAnd(unit[1], 96)

\* the unit contributes a fragment: it is not empty and not of type 9 or 12
KeptUnit(unit) == Len(unit) > 0 /\ NalType(unit) \notin {9, 12}

\* C12: for a NAL unit of a type other than 9 and 12 and of size >= mtu (the mtu
\* holding the 2-octet FU header; below that there is nothing to emit) the H.264
\* generator returns FU-A fragments of at most mtu octets, byte 0 = 0x1c | NRI,
\* byte 1 = the NAL type with bit 7 on exactly the first and bit 6 on exactly the
\* last fragment, whose octets after the headers concatenate to the unit's octets
\* after its first.
C12_FuaFragments ==
    (/\ fragOut.h264.called
     /\ Len(frag.payload) > 0
     /\ ~HasStartCode(frag.payload)
     /\ ~get_nal_unit_boundaries(frag.payload, 0).some
     /\ NalType(frag.payload) \notin {9, 12}
     /\ Len(frag.payload) >= frag.mtu) =>
        LET out == fragOut.h264.out
            n == Len(out.v)
        IN IF frag.mtu < 2 THEN fragOut.h264.status = "ok" /\ ~out.some
           ELSE /\ fragOut.h264.status = "ok"
                /\ out.some
                /\ \A i \in 1..n :
                      /\ Len(out.v[i]) \in 2..frag.mtu
                      /\ out.v[i][1] = BitOr(28, NalRefIdc(frag.payload))
                      /\ out.v[i][2] = NalType(frag.payload)
                                         + (IF i = 1 THEN 128 ELSE 0)
                                         + (IF i = n THEN 64 ELSE 0)
                /\ Flatten([i \in 1..n |-> SubSeq(out.v[i], 3, Len(out.v[i]))])
                      = Tail(frag.payload)

\* C13: the H.264 generator sees a start code only at an actual 0 0 1 or 0 0 0 1,
\* takes the regions after the start codes as the NAL units in frame order, a frame
\* without start code being one unit; a unit of type 9 or 12 gives no fragment, a
\* unit smaller than mtu is returned whole as one fragment, and none is returned
\* for an empty frame or when no fragment results.
C13_NalUnitsWhole ==
    fragOut.h264.called =>
        LET kept == SelectSeq(NalUnits(frag.payload), KeptUnit)
        IN /\ Len(frag.payload) = 0 => fragOut.h264.status = "ok" /\ ~fragOut.h264.out.some
           /\ (Len(frag.payload) > 0 /\ Len(frag.payload) < frag.mtu) =>
                 /\ fragOut.h264.status = "ok"
                 /\ fragOut.h264.out = IF Len(kept) = 0 THEN None ELSE Some(kept)

----------------------------------------------------------------------------
(* Claims about the header extension of the Packetizer (Spec) *)

\* C14: with an AbsSendTime(id) registered, the last packet of a successful call has
\* extension = true, extension_profile = 0xBEDE and the extension payload
\* (id << 4) | 2 followed by the high, middle and low octets of the 24-bit
\* abs-send-time field of the NTP time read; every other packet, and every packet
\* when no AbsSendTime is registered, has no extension, profile or payload.
C14_AbsSendTimeOnLast ==
    Returned =>
        LET registered == AbsSendTimeFold(None, call.before.extensions)
        IN \A i \in 1..NumPackets :
              IF i = NumPackets /\ registered.some
              THEN /\ call.packets[i].extension
                   /\ call.packets[i].extension_profile = Some(48862)
                   /\ call.packets[i].extension_payload
                         = Some(<<BitOr((registered.v * 16) % 256, 2),
                                  call.time[6], call.time[7], call.time[8]>>)
              ELSE /\ ~call.packets[i].extension
                   /\ call.packets[i].extension_profile = None
                   /\ call.packets[i].extension_payload = None

----------------------------------------------------------------------------
(* Claims about Packet (SpecPacket) *)

\* the header extension length, in octets, that the buffer declares at offset he
DeclaredExtension(b, he) == 4 * (b[he + 3] * 256 + b[he + 4])

\* the buffer has version 2 and holds the CSRCs and the header extension that its
\* first octet and its extension header declare
WellFormed(b) ==
    /\ Len(b) >= 12
    /\ b[1] \div 64 = 2
    /\ Len(b) >= 12 + 4 * (b[1] % 16)
    /\ ((b[1] \div 16) % 2 = 1) =>
          /\ Len(b) >= 12 + 4 * (b[1] % 16) + 4
          /\ Len(b) >= 12 + 4 * (b[1] % 16) + 4 + DeclaredExtension(b, 12 + 4 * (b[1] % 16))

\* the buffer is too short for what it must hold
TooShort(b) ==
    \/ Len(b) < 4
    \/ Len(b) < 12 + 4 * (b[1] % 16)
    \/ /\ (b[1] \div 16) % 2 = 1
       /\ \/ Len(b) < 12 + 4 * (b[1] % 16) + 4
          \/ Len(b) < 12 + 4 * (b[1] % 16) + 4 + DeclaredExtension(b, 12 + 4 * (b[1] % 16))

\* the wire format of a packet: fixed header, CSRCs, header extension, payload
WireFormat(p) ==
    <<FirstOctet(p), SecondOctet(p)>>
        \o U16ToBe(p.sequence_number) \o U32ToBe(p.timestamp) \o U32ToBe(p.ssrc)
        \o Flatten([i \in 1..Len(p.csrc) |-> U32ToBe(p.csrc[i])])
        \o (IF p.extension_profile.some /\ p.extension_payload.some
            THEN U16ToBe(p.extension_profile.v)
                 \o U16ToBe(Len(p.extension_payload.v) \div 4)
                 \o p.extension_payload.v
            ELSE <<>>)
        \o p.payload

\* from_raw was called on the buffer and has ended
Parsing == wire.source = "buffer" /\ wire.stage # "buffer"

\* C15: for every well-formed buffer B of version 2 with self-consistent CC and
\* extension length, from_raw(B) succeeds and to_raw of the packet it returns is B.
C15_RoundTrip ==
    /\ (Parsing /\ WellFormed(wire.buffer)) => wire.parsed
    /\ (wire.parsed /\ WellFormed(wire.buffer) /\ ~wire.updated /\ wire.export.called) =>
          wire.export.ret = Ok(wire.buffer)

\* a buffer with a CSRC and a one-word header extension went through from_raw and
\* to_raw
C15_Witness ==
    /\ wire.parsed
    /\ ~wire.updated
    /\ wire.export.called
    /\ wire.export.by = "to_raw"
    /\ wire.export.ret = Ok(wire.buffer)
    /\ Len(wire.packet.csrc) >= 1
    /\ wire.packet.extension_payload = Some(<<255, 255, 255, 255>>)
    /\ wire.packet.payload = <<152, 54>>

\* C16: for a packet without raw buffer, of version 2, with at most 15 CSRCs and an
\* extension payload of a multiple of 4 octets, to_raw succeeds and returns
\* header_size + |payload| octets laid out as fixed header, CSRC i at 12 + 4i,
\* extension profile, length in words and payload, then the payload; from_raw of
\* that buffer gives the same field values.
C16_SerializeBuilt ==
    (/\ wire.export.called
     /\ ~wire.export.of.raw.some
     /\ wire.export.of.version = 2
     /\ Len(wire.export.of.csrc) <= 15
     /\ wire.export.of.extension_payload.some =>
           Len(wire.export.of.extension_payload.v) % 4 = 0) =>
        /\ wire.export.ret.status = "ok"
        /\ Len(wire.export.ret.v) = header_size(wire.export.of) + Len(wire.export.of.payload)
        /\ wire.export.ret.v = WireFormat(wire.export.of)
        /\ from_raw(wire.export.ret.v).status = "ok"
        /\ \A f \in {"version", "padding", "extension", "marker", "payload_type",
                     "sequence_number", "timestamp", "ssrc", "csrc",
                     "extension_profile", "extension_payload", "payload"} :
              from_raw(wire.export.ret.v).v[f] = wire.export.of[f]

\* C17: from_raw returns an error, never a packet and never a panic, for every
\* buffer shorter than 4 octets, shorter than 12 + 4 * cc octets (so every buffer of
\* 4 to 11 octets), or whose extension bit is set without the 4-octet extension
\* header and the 4 * length extension octets it declares.
C17_ShortBufferIsError ==
    (Parsing /\ TooShort(wire.buffer)) => wire.stage = "error"

\* C18: from_raw fails for every buffer whose version field is not 2, so every
\* packet it returns has version 2.
C18_VersionTwoOnly ==
    /\ (Parsing /\ Len(wire.buffer) > 0 /\ wire.buffer[1] \div 64 # 2) =>
          wire.stage = "error"
    /\ wire.parsed => wire.packet.version = 2

\* C19: to_raw of a packet whose extension_profile and extension_payload are present
\* and whose extension payload length is not a multiple of 4 returns an error (no
\* buffer, no panic), with or without a cached raw buffer.
C19_OddExtensionIsError ==
    (/\ wire.export.called
     /\ wire.export.of.extension_profile.some
     /\ wire.export.of.extension_payload.some
     /\ Len(wire.export.of.extension_payload.v) % 4 # 0) =>
        wire.export.ret.status = "err"

\* C20: in every state reached by from_raw, to_raw_mut and assignments to the public
\* fields, a cached raw buffer equals the wire format of the packet's current
\* fields, and to_raw returns the wire format of the fields of the packet it is
\* called on.
C20_RawIsFresh ==
    /\ (/\ wire.stage = "packet"
        /\ wire.packet.raw.some
        /\ wire.packet.extension_payload.some =>
              Len(wire.packet.extension_payload.v) % 4 = 0) =>
          wire.packet.raw.v = WireFormat(wire.packet)
    /\ (wire.export.called /\ wire.export.ret.status = "ok") =>
          wire.export.ret.v = WireFormat(wire.export.of)

----------------------------------------------------------------------------
(* Claims about the RTCP codecs (SpecRtcp) *)

\* a buffer was given and K::from_raw called on it; the value parsed from it
ParsedAs(kind) == rtcp.kind = kind /\ rtcp.source = "buffer" /\ rtcp.parse.called
\* a value was given and to_raw called on it
ExportedAs(kind) == rtcp.kind = kind /\ rtcp.source = "value" /\ rtcp.emit.called

\* the u32 held by the four octets of b from offset on (offset counts from 0), most
\* significant octet first
WireU32(b, offset) ==
    <<b[offset + 1] * 256 + b[offset + 2], b[offset + 3] * 256 + b[offset + 4]>>

\* a common header: at least 4 octets with the version bits 2
ValidHeader(b) == Len(b) >= 4 /\ b[1] \div 64 = 2

\* C21: the RTCP header parse succeeds exactly on the buffers of at least 4 octets
\* whose version bits are 2; it reads padding from bit 5, report_count from the low
\* 5 bits, packet_type from octet 1 and length big-endian from octets 2..3; and the
\* emission of the parsed header is the first four octets of the buffer, whatever
\* the packet-type octet is.
C21_HeaderRoundTrip ==
    /\ ParsedAs("Header") =>
          /\ (rtcp.parse.ret.status = "ok") <=> ValidHeader(rtcp.buffer)
          /\ rtcp.parse.ret.status \in {"ok", "err"}
          /\ rtcp.parse.ret.status = "ok" =>
                /\ rtcp.parse.ret.v.padding = ((rtcp.buffer[1] \div 32) % 2 = 1)
                /\ rtcp.parse.ret.v.report_count = rtcp.buffer[1] % 32
                /\ IF rtcp.buffer[2] \in 200..206
                   THEN PacketTypeAsU8(rtcp.parse.ret.v.packet_type) = rtcp.buffer[2]
                   ELSE rtcp.parse.ret.v.packet_type = "Unknown"
                /\ rtcp.parse.ret.v.length = rtcp.buffer[3] * 256 + rtcp.buffer[4]
    /\ (ParsedAs("Header") /\ rtcp.emit.called) =>
          rtcp.emit.ret = Ok(SubSeq(rtcp.buffer, 1, 4))

\* C22: for every 24-octet buffer B the emission of the parsed reception report is
\* B, and for every ReceptionReport R with total_lost < 2^24 the parse of the
\* emission of R is R, total_lost being held by the octets 5..7 most significant
\* octet first.
C22_ReportRoundTrip ==
    /\ (ParsedAs("ReceptionReport") /\ Len(rtcp.buffer) = 24) =>
          /\ rtcp.parse.ret.status = "ok"
          /\ rtcp.emit.called => rtcp.emit.ret = Ok(rtcp.buffer)
    /\ (ExportedAs("ReceptionReport") /\ rtcp.value.total_lost < 2 ^ 24) =>
          /\ rtcp.emit.ret.status = "ok"
          /\ rtcp.emit.ret.v[6] * 65536 + rtcp.emit.ret.v[7] * 256 + rtcp.emit.ret.v[8]
                 = rtcp.value.total_lost
          /\ rtcp.parse.called => rtcp.parse.ret = Ok(rtcp.value)

\* C23: the emission of a reception report returns an error for every total_lost
\* of 2^24 or more, 2^24 itself included, and succeeds with a buffer of 24 octets
\* for every total_lost below 2^24.
C23_TotalLostLimit ==
    ExportedAs("ReceptionReport") =>
        IF rtcp.value.total_lost >= 2 ^ 24
        THEN rtcp.emit.ret.status = "err"
        ELSE rtcp.emit.ret.status = "ok" /\ Len(rtcp.emit.ret.v) = 24

\* a Sender Report that cannot be parsed: fewer than 28 octets, a version other
\* than 2, a packet type other than SR (200), or fewer octets than the 28 of the
\* headers and the 24 of each of the report_count blocks
MalformedSr(b) ==
    \/ Len(b) < 28
    \/ ~ValidHeader(b)
    \/ b[2] # 200
    \/ Len(b) < 28 + 24 * (b[1] % 32)

\* C24: the Sender Report parse returns an error, never an abnormal failure, when
\* the buffer is shorter than 28 octets, when packet_type is not SR, when the
\* version is not 2, or when the buffer is too short for the header.report_count
\* blocks of 24 octets from offset 28 on; on success the number of parsed reports
\* is header.report_count.
C24_SrParseErrors ==
    ParsedAs("SenderReport") =>
        /\ rtcp.parse.ret.status \in {"ok", "err"}
        /\ MalformedSr(rtcp.buffer) => rtcp.parse.ret.status = "err"
        /\ rtcp.parse.ret.status = "ok" =>
              /\ Len(rtcp.parse.ret.v.reports) = rtcp.parse.ret.v.header.report_count
              /\ rtcp.parse.ret.v.header.report_count = rtcp.buffer[1] % 32

\* C25: for every well-formed Sender Report buffer B (28 + 24 * RC octets, then
\* optional profile-extension octets) the parse succeeds and the emission of the
\* parsed packet succeeds and equals B, so that it has length() octets with the
\* sender SSRC at 4..7, the NTP time at 8..15, rtp_time at 16..19, packet_count at
\* 20..23, byte_count at 24..27, then the reports, then the profile extensions.
C25_SrRoundTrip ==
    (ParsedAs("SenderReport") /\ ~MalformedSr(rtcp.buffer)) =>
        /\ rtcp.parse.ret.status = "ok"
        /\ rtcp.emit.called =>
              /\ rtcp.emit.ret = Ok(rtcp.buffer)
              /\ Len(rtcp.buffer) = SenderReport_length(rtcp.parse.ret.v)

\* the octets of a Goodbye after its sources, when there are any: the length of
\* the reason and the reason
ReasonOffset(b) == 4 + 4 * (b[1] % 32)
DeclaredReason(b) == SubSeq(b, ReasonOffset(b) + 2, ReasonOffset(b) + 1 + b[ReasonOffset(b) + 1])

\* a Goodbye that cannot be parsed
MalformedGoodbye(b) ==
    \/ ~ValidHeader(b)
    \/ b[2] # 203
    \/ Len(b) % 4 # 0
    \/ ReasonOffset(b) > Len(b)
    \/ /\ ReasonOffset(b) < Len(b)
       /\ \/ ReasonOffset(b) + 1 + b[ReasonOffset(b) + 1] > Len(b)
          \/ ~ValidUtf8(DeclaredReason(b))

\* C26: the BYE parse returns an error when the buffer length is not a multiple
\* of 4, when 4 + 4 * RC exceeds the buffer, when the declared reason length
\* overruns the buffer, when the reason octets are not valid UTF-8, when
\* packet_type is not BYE, or when the header is invalid; otherwise it returns
\* exactly RC big-endian SSRCs in wire order and the reason, which is absent when
\* no octet follows the SSRC list.
C26_GoodbyeParse ==
    ParsedAs("Goodbye") =>
        IF MalformedGoodbye(rtcp.buffer)
        THEN rtcp.parse.ret.status = "err"
        ELSE /\ rtcp.parse.ret.status = "ok"
             /\ rtcp.parse.ret.v.sources =
                    [i \in 1..(rtcp.buffer[1] % 32) |-> WireU32(rtcp.buffer, 4 * i)]
             /\ rtcp.parse.ret.v.reason =
                    IF ReasonOffset(rtcp.buffer) = Len(rtcp.buffer) THEN None
                    ELSE Some(DeclaredReason(rtcp.buffer))

\* a buffer with two sources and the reason "FOO" was parsed
C26_Witness ==
    /\ ParsedAs("Goodbye")
    /\ rtcp.parse.ret.status = "ok"
    /\ Len(rtcp.parse.ret.v.sources) = 2
    /\ rtcp.parse.ret.v.reason = Some(<<70, 79, 79>>)

\* the wire form of a Goodbye: the header, the four octets of each SSRC, and when
\* a reason is present its length, its octets and zero octets up to the next
\* multiple of 4
GoodbyeWire(g) ==
    LET body == <<128 + g.header.report_count, 203>> \o U16ToBe(g.header.length)
                    \o Flatten([i \in 1..Len(g.sources) |-> U32ToBe(g.sources[i])])
                    \o (IF g.reason.some THEN <<Len(g.reason.v)>> \o g.reason.v ELSE <<>>)
    IN body \o Zeros((4 - (Len(body) % 4)) % 4)

\* C27: the BYE emission fails when there are more than 31 sources or the reason
\* has more than 255 octets; otherwise it succeeds with a buffer of exactly
\* length() octets, a multiple of 4, holding the header, all four big-endian octets
\* of each SSRC and, when a reason is present, its 1-octet length, its octets and
\* NUL padding to the next 4-octet boundary, so that the parse of the emission
\* recovers the sources and the reason, and the emission of a parsed well-formed
\* buffer is that buffer.
C27_GoodbyeEmission ==
    /\ (ExportedAs("Goodbye") /\ rtcp.value.header.report_count <= 31) =>
          IF Len(rtcp.value.sources) > 31
                \/ (rtcp.value.reason.some /\ Len(rtcp.value.reason.v) > 255)
          THEN rtcp.emit.ret.status = "err"
          ELSE /\ rtcp.emit.ret = Ok(GoodbyeWire(rtcp.value))
               /\ Len(rtcp.emit.ret.v) = Goodbye_length(rtcp.value)
               /\ Len(rtcp.emit.ret.v) % 4 = 0
               /\ rtcp.parse.called =>
                     /\ rtcp.parse.ret.status = "ok"
                     /\ rtcp.parse.ret.v.sources = rtcp.value.sources
                     /\ rtcp.parse.ret.v.reason = rtcp.value.reason
    /\ (ParsedAs("Goodbye") /\ rtcp.parse.ret.status = "ok" /\ rtcp.emit.called
            /\ rtcp.buffer = GoodbyeWire(rtcp.parse.ret.v)) =>
          rtcp.emit.ret = Ok(rtcp.buffer)

\* C28: synchronization_sources() of a BYE packet returns its sources in order, and
\* synchronization_sources() of a Sender Report returns, in order, the SSRCs of its
\* reception reports (header.report_count of them for a parsed packet: the SSRCs at
\* the offsets 28, 52, ... of the buffer) and never the sender's own SSRC.
C28_SynchronizationSources ==
    /\ (rtcp.kind = "Goodbye" /\ rtcp.ssrcs.called) =>
          rtcp.ssrcs.ret = rtcp.ssrcs.of.sources
    /\ (rtcp.kind = "SenderReport" /\ rtcp.ssrcs.called) =>
          /\ Len(rtcp.ssrcs.ret) = Len(rtcp.ssrcs.of.reports)
          /\ \A i \in 1..Len(rtcp.ssrcs.ret) :
                /\ rtcp.ssrcs.ret[i] = rtcp.ssrcs.of.reports[i].synchronization_source
                /\ rtcp.ssrcs.ret[i] # rtcp.ssrcs.of.synchronization_source
          /\ rtcp.source = "buffer" =>
                rtcp.ssrcs.ret =
                    [i \in 1..(rtcp.buffer[1] % 32) |-> WireU32(rtcp.buffer, 4 + 24 * i)]

\* a Sender Report with two reception reports was parsed and asked its sources
C28_Witness ==
    /\ ParsedAs("SenderReport")
    /\ rtcp.ssrcs.called
    /\ Len(rtcp.ssrcs.ret) = 2
    /\ rtcp.ssrcs.ret[1] # rtcp.ssrcs.ret[2]

----------------------------------------------------------------------------
(* Claims about termination and packet size (SpecFragmenter, Spec) *)

\* C29: for every mtu >= 0 and every frame (an mtu of 2 with a NAL unit of 2 or
\* more octets, a frame that ends with a start code and a frame with two adjacent
\* start codes included) the H.264 generator returns a result, none or a finite
\* list of fragments: it neither loops forever nor fails abnormally; and so does
\* packetize on an H.264 Packetizer with an mtu of 14.
C29_H264Returns ==
    /\ fragOut.h264.called => fragOut.h264.status = "ok"
    /\ (call.ret # "init" /\ call.before.generator.kind = "H264" /\ call.before.mtu = 14) =>
          call.ret \in {"none", "some"}

\* C30: every packet returned by packetize with a G.711, G.722, VP8, VP9 or H.264
\* generator has a wire size, header_size plus the length of the payload, of at
\* most the configured mtu, for every mtu above 12 and every frame, with or without
\* an abs-send-time extension registered (its 8 header octets go on the last packet).
C30_PacketsWithinMtu ==
    (/\ call.ret = "some"
     /\ call.before.generator.kind \in {"G711", "G722", "VP8", "VP9", "H264"}
     /\ call.before.mtu > 12) =>
        \A i \in 1..Len(call.packets) :
            header_size(call.packets[i]) + Len(call.packets[i].payload) <= call.before.mtu

====
